---- MODULE Spec2Model ----
(***************************************************************************)
(* Speech-delivery analytics of lightpitch: models/audio/analyzer.py.      *)
(*                                                                         *)
(* Numbers.  The program computes with Python floats; the model computes   *)
(* with integers in fixed units and with exact fractions:                  *)
(*   pace                  hundredths of a word per minute   Wpm(110)      *)
(*   times, durations      quarters of a millisecond         Sec(3)        *)
(*   levels (dBFS, dB)     hundredths of a decibel           Db(-12)       *)
(*   clipping ratio        units of 1e-5                     0.005 = 500   *)
(*   coverage              tenths of a percent               Pct(90)       *)
(*   cosine similarity     units of 1e-4                     0.65 = 6500   *)
(*   text                  sequences of one-character strings              *)
(* A quotient the code compares with a decimal literal (pauses per minute, *)
(* per-100-word rates, time and spoken ratios) is kept as a fraction       *)
(* Q(n, d) and compared by cross-multiplication, so a boundary is hit      *)
(* exactly.  round(x, k) is modelled as round-half-even of the exact       *)
(* value.  None is <<>> for numbers and the string "None" for strings.     *)
(* The constant label / advice / target strings of the checklist items     *)
(* are not part of the model.                                              *)
(***************************************************************************)
EXTENDS Integers, Sequences, FiniteSets, TLC

VARIABLES pc, inp, mic_quality, audio_checklist, loc, calls, report,
          frontend_result

vars == <<pc, inp, mic_quality, audio_checklist, loc, calls, report,
          frontend_result>>

-----------------------------------------------------------------------------
(* Units and Python values *)

Wpm(x) == x * 100
Sec(x) == x * 4000
Db(x)  == x * 100
Pct(x) == x * 10

None       == <<>>
Some(v)    == <<v>>
IsNone(x)  == x = <<>>
Val(x)     == x[1]
NoneStr    == "None"

Q(n, d)    == [n |-> n, d |-> d]
RLe(a, b)  == a.n * b.d <= b.n * a.d
RLt(a, b)  == a.n * b.d <  b.n * a.d
RMax(a, b) == IF RLe(a, b) THEN b ELSE a
RDiv(a, b) == Q(a.n * b.d, a.d * b.n)

Max2(a, b) == IF a >= b THEN a ELSE b

\* round(n / d) to the nearest integer, ties to even (d > 0)
RoundDiv(n, d) ==
    LET f == n \div d
        r == n % d
    IN  IF 2 * r < d THEN f
        ELSE IF 2 * r > d THEN f + 1
        ELSE IF f % 2 = 0 THEN f ELSE f + 1

\* round(q, k) with scale = 10^k, as an integer count of 10^-k
RoundQ(q, scale) == RoundDiv(q.n * scale, q.d)

RECURSIVE MaxDur(_)
\* max((p["dur"] for p in long_pauses), default=0.0)
MaxDur(ps) ==
    IF ps = <<>> THEN 0 ELSE Max2(Head(ps).dur, MaxDur(Tail(ps)))

\* xs[:k]
Take(xs, k) == SubSeq(xs, 1, IF Len(xs) < k THEN Len(xs) ELSE k)

-----------------------------------------------------------------------------
(* analyze_mic_quality.  A signal is what the measurements read of it:     *)
(* size (number of samples), rms and peak level, fraction of samples with  *)
(* |x| >= 0.999.                                                           *)

\* rms_dbfs that reports the floor level for an empty signal
rms_dbfs_unguarded(x) == IF x.size = 0 THEN Some(Db(-240)) ELSE Some(x.rms)

rms_dbfs(x) == IF x.size = 0 THEN None ELSE Some(x.rms)

peak_dbfs(x) == IF x.size = 0 THEN None ELSE Some(x.peak)

ClipRatio(x) == IF x.size # 0 THEN x.clip ELSE 0

\* LoudBlock that calls clipping only when ratio and peak both say so
LoudBlockBoth(speech_rms, peak, clip_ratio) ==
    LET grade ==
          IF IsNone(speech_rms) THEN <<NoneStr, NoneStr>>
          ELSE IF clip_ratio >= 500 /\ (~IsNone(peak) /\ Val(peak) > Db(-1))
               THEN <<"error", "clipping">>
          ELSE IF Val(speech_rms) > Db(-12) THEN <<"warning", "too_loud">>
          ELSE IF Db(-23) <= Val(speech_rms) /\ Val(speech_rms) <= Db(-14)
               THEN <<"good", "ok">>
          ELSE IF Db(-28) <= Val(speech_rms) /\ Val(speech_rms) < Db(-23)
               THEN <<"warning", "too_quiet">>
          ELSE <<"error", "very_quiet">>
    IN  [ speech_rms_dbfs  |-> IF IsNone(speech_rms) THEN None
                               ELSE Some(RoundDiv(Val(speech_rms), 10)),
          speech_peak_dbfs |-> IF IsNone(peak) THEN None
                               ELSE Some(RoundDiv(Val(peak), 10)),
          clipping_ratio   |-> Some(RoundDiv(clip_ratio, 10)),
          status           |-> grade[1],
          substatus        |-> grade[2] ]

LoudBlock(speech_rms, peak, clip_ratio) ==
    LET grade ==
          IF IsNone(speech_rms) THEN <<NoneStr, NoneStr>>
          ELSE IF clip_ratio >= 500 \/ (~IsNone(peak) /\ Val(peak) > Db(-1))
               THEN <<"error", "clipping">>
          ELSE IF Val(speech_rms) > Db(-12) THEN <<"warning", "too_loud">>
          ELSE IF Db(-23) <= Val(speech_rms) /\ Val(speech_rms) <= Db(-14)
               THEN <<"good", "ok">>
          ELSE IF Db(-28) <= Val(speech_rms) /\ Val(speech_rms) < Db(-23)
               THEN <<"warning", "too_quiet">>
          ELSE <<"error", "very_quiet">>
    IN  [ speech_rms_dbfs  |-> IF IsNone(speech_rms) THEN None
                               ELSE Some(RoundDiv(Val(speech_rms), 10)),
          speech_peak_dbfs |-> IF IsNone(peak) THEN None
                               ELSE Some(RoundDiv(Val(peak), 10)),
          clipping_ratio   |-> Some(RoundDiv(clip_ratio, 10)),
          status           |-> grade[1],
          substatus        |-> grade[2] ]

\* NoiseBlock grading the SNR after rounding it to one decimal
NoiseBlockRounded(speech_rms, noise_rms) ==
    LET snr_db == IF IsNone(speech_rms) \/ IsNone(noise_rms) THEN None
                  ELSE Some(10 * RoundDiv(Val(speech_rms) - Val(noise_rms), 10))
        grade  == IF IsNone(snr_db) THEN <<NoneStr, NoneStr>>
                  ELSE IF Val(snr_db) >= Db(20) THEN <<"good", "clean">>
                  ELSE IF Db(12) <= Val(snr_db) /\ Val(snr_db) < Db(20)
                       THEN <<"warning", "moderate_noise">>
                  ELSE <<"error", "noisy">>
    IN  [ snr_db          |-> IF IsNone(snr_db) THEN None
                              ELSE Some(RoundDiv(Val(snr_db), 10)),
          speech_rms_dbfs |-> IF IsNone(speech_rms) THEN None
                              ELSE Some(RoundDiv(Val(speech_rms), 10)),
          noise_rms_dbfs  |-> IF IsNone(noise_rms) THEN None
                              ELSE Some(RoundDiv(Val(noise_rms), 10)),
          status          |-> grade[1],
          substatus       |-> grade[2] ]

NoiseBlock(speech_rms, noise_rms) ==
    LET snr_db == IF IsNone(speech_rms) \/ IsNone(noise_rms) THEN None
                  ELSE Some(Val(speech_rms) - Val(noise_rms))
        grade  == IF IsNone(snr_db) THEN <<NoneStr, NoneStr>>
                  ELSE IF Val(snr_db) >= Db(20) THEN <<"good", "clean">>
                  ELSE IF Db(12) <= Val(snr_db) /\ Val(snr_db) < Db(20)
                       THEN <<"warning", "moderate_noise">>
                  ELSE <<"error", "noisy">>
    IN  [ snr_db          |-> IF IsNone(snr_db) THEN None
                              ELSE Some(RoundDiv(Val(snr_db), 10)),
          speech_rms_dbfs |-> IF IsNone(speech_rms) THEN None
                              ELSE Some(RoundDiv(Val(speech_rms), 10)),
          noise_rms_dbfs  |-> IF IsNone(noise_rms) THEN None
                              ELSE Some(RoundDiv(Val(noise_rms), 10)),
          status          |-> grade[1],
          substatus       |-> grade[2] ]

analyze_mic_quality(speech_sig, noise_sig) ==
    LET speech_rms == rms_dbfs(speech_sig)
        noise_rms  == rms_dbfs(noise_sig)
        peak       == peak_dbfs(speech_sig)
        clip_ratio == ClipRatio(speech_sig)
    IN  [ mic_loudness |-> LoudBlock(speech_rms, peak, clip_ratio),
          mic_noise    |-> NoiseBlock(speech_rms, noise_rms) ]

-----------------------------------------------------------------------------
(* build_audio_checklist, one operator per item *)

\* PaceItem with the upper end of the good range excluded
PaceItemStrict(wpm_spoken) ==
    LET pace  == wpm_spoken
        grade ==
          IF Wpm(110) <= pace /\ pace < Wpm(140) THEN <<"good", "ok">>
          ELSE IF Wpm(90) <= pace /\ pace < Wpm(110) THEN <<"warning", "too_slow">>
          ELSE IF Wpm(140) < pace /\ pace <= Wpm(160) THEN <<"warning", "too_fast">>
          ELSE IF pace < Wpm(90) THEN <<"error", "too_slow">>
          ELSE <<"error", "too_fast">>
    IN  [ value     |-> RoundDiv(pace, 10),
          status    |-> grade[1],
          substatus |-> grade[2] ]

PaceItem(wpm_spoken) ==
    LET pace  == wpm_spoken
        grade ==
          IF Wpm(110) <= pace /\ pace <= Wpm(140) THEN <<"good", "ok">>
          ELSE IF Wpm(90) <= pace /\ pace < Wpm(110) THEN <<"warning", "too_slow">>
          ELSE IF Wpm(140) < pace /\ pace <= Wpm(160) THEN <<"warning", "too_fast">>
          ELSE IF pace < Wpm(90) THEN <<"error", "too_slow">>
          ELSE <<"error", "too_fast">>
    IN  [ value     |-> RoundDiv(pace, 10),
          status    |-> grade[1],
          substatus |-> grade[2] ]

\* PausesItem graded good as soon as one of the two targets is met
PausesItemEither(long_pauses, duration_total) ==
    LET per_min   == IF duration_total > 0
                     THEN Q(Len(long_pauses) * 240000, duration_total)
                     ELSE Q(0, 1)
        max_pause == MaxDur(long_pauses)
        too_many  == RLt(Q(15, 10), per_min)
        too_long  == max_pause > Sec(4)
        mid_many  == RLt(Q(5, 10), per_min) /\ RLe(per_min, Q(15, 10))
        mid_long  == Sec(3) < max_pause /\ max_pause <= Sec(4)
        grade ==
          IF RLe(per_min, Q(5, 10)) \/ max_pause <= Sec(3) THEN <<"good", "ok">>
          ELSE IF too_many /\ too_long THEN <<"error", "many_and_long">>
          ELSE IF too_many THEN <<"error", "too_many">>
          ELSE IF too_long THEN <<"error", "too_long">>
          ELSE IF mid_many /\ mid_long THEN <<"warning", "many_and_long">>
          ELSE IF mid_many THEN <<"warning", "too_many">>
          ELSE IF mid_long THEN <<"warning", "too_long">>
          ELSE <<"good", "ok">>
    IN  [ count     |-> Len(long_pauses),
          per_min   |-> RoundQ(per_min, 100),
          max_sec   |-> RoundDiv(max_pause, 40),
          status    |-> grade[1],
          substatus |-> grade[2] ]

PausesItem(long_pauses, duration_total) ==
    LET per_min   == IF duration_total > 0
                     THEN Q(Len(long_pauses) * 240000, duration_total)
                     ELSE Q(0, 1)
        max_pause == MaxDur(long_pauses)
        too_many  == RLt(Q(15, 10), per_min)
        too_long  == max_pause > Sec(4)
        mid_many  == RLt(Q(5, 10), per_min) /\ RLe(per_min, Q(15, 10))
        mid_long  == Sec(3) < max_pause /\ max_pause <= Sec(4)
        grade ==
          IF RLe(per_min, Q(5, 10)) /\ max_pause <= Sec(3) THEN <<"good", "ok">>
          ELSE IF too_many /\ too_long THEN <<"error", "many_and_long">>
          ELSE IF too_many THEN <<"error", "too_many">>
          ELSE IF too_long THEN <<"error", "too_long">>
          ELSE IF mid_many /\ mid_long THEN <<"warning", "many_and_long">>
          ELSE IF mid_many THEN <<"warning", "too_many">>
          ELSE IF mid_long THEN <<"warning", "too_long">>
          ELSE <<"good", "ok">>
    IN  [ count     |-> Len(long_pauses),
          per_min   |-> RoundQ(per_min, 100),
          max_sec   |-> RoundDiv(max_pause, 40),
          status    |-> grade[1],
          substatus |-> grade[2] ]

\* FillersItem dividing by the raw word total, zero words counted as rate 0
FillersItemNoFloor(filler_count_total, words_total) ==
    LET fillers_per_100 == IF words_total = 0 THEN Q(0, 1)
                           ELSE Q(filler_count_total * 100, words_total)
        grade ==
          IF RLe(fillers_per_100, Q(1, 1)) THEN <<"good", "low">>
          ELSE IF RLe(fillers_per_100, Q(3, 1)) THEN <<"warning", "medium">>
          ELSE <<"error", "high">>
    IN  [ count_total   |-> filler_count_total,
          per_100_words |-> RoundQ(fillers_per_100, 100),
          status        |-> grade[1],
          substatus     |-> grade[2] ]

FillersItem(filler_count_total, words_total) ==
    LET fillers_per_100 == Q(filler_count_total * 100, Max2(words_total, 1))
        grade ==
          IF RLe(fillers_per_100, Q(1, 1)) THEN <<"good", "low">>
          ELSE IF RLe(fillers_per_100, Q(3, 1)) THEN <<"warning", "medium">>
          ELSE <<"error", "high">>
    IN  [ count_total   |-> filler_count_total,
          per_100_words |-> RoundQ(fillers_per_100, 100),
          status        |-> grade[1],
          substatus     |-> grade[2] ]

HedgesItem(hedge_count_total, words_total) ==
    LET hedges_per_100 == Q(hedge_count_total * 100, Max2(words_total, 1))
        grade ==
          IF RLe(hedges_per_100, Q(5, 10)) THEN <<"good", "low">>
          ELSE IF RLe(hedges_per_100, Q(15, 10)) THEN <<"warning", "medium">>
          ELSE <<"error", "high">>
    IN  [ count_total   |-> hedge_count_total,
          per_100_words |-> RoundQ(hedges_per_100, 100),
          status        |-> grade[1],
          substatus     |-> grade[2] ]

\* CoverageItem with a missing coverage scored as 0 percent
CoverageItemZero(coverage) ==
    LET absent == IsNone(coverage) \/ IsNone(Val(coverage).coverage)
        cov_value == IF absent THEN Some(0) ELSE Val(coverage).coverage
        grade ==
          IF Val(cov_value) >= Pct(90) THEN <<"good", "ok">>
          ELSE IF Val(cov_value) >= Pct(75) THEN <<"warning", "partial">>
          ELSE <<"error", "low">>
    IN  [ value            |-> cov_value,
          status           |-> grade[1],
          substatus        |-> grade[2],
          missing_count    |-> IF absent THEN Some(0)
                               ELSE Some(Len(Val(coverage).missing)),
          missing_examples |-> Some(<<>>) ]

\* coverage is None or a record [coverage, missing, matches] whose coverage
\* may itself be None (a script that splits into no units)
CoverageItem(coverage) ==
    LET absent == IsNone(coverage) \/ IsNone(Val(coverage).coverage)
        cov_value == IF absent THEN None ELSE Val(coverage).coverage
        missing_count == IF absent THEN None
                         ELSE Some(Len(Val(coverage).missing))
        missing_examples ==
            IF absent THEN <<>>
            ELSE [i \in DOMAIN Take(Val(coverage).missing, 3) |->
                     Val(coverage).missing[i].unit]
        grade ==
          IF absent THEN <<NoneStr, NoneStr>>
          ELSE IF Val(cov_value) >= Pct(90) THEN <<"good", "ok">>
          ELSE IF Val(cov_value) >= Pct(75) THEN <<"warning", "partial">>
          ELSE <<"error", "low">>
    IN  [ value            |-> IF IsNone(coverage) THEN None ELSE cov_value,
          status           |-> grade[1],
          substatus        |-> grade[2],
          missing_count    |-> IF IsNone(coverage) THEN None ELSE missing_count,
          missing_examples |-> IF IsNone(coverage) THEN None
                               ELSE Some(missing_examples) ]

\* TimeUseItem with the +5% end of the good range excluded
TimeUseItemStrict(planned_duration_sec, speech_window_sec) ==
    IF ~IsNone(planned_duration_sec) /\ Val(planned_duration_sec) > 0
       /\ speech_window_sec > 0
    THEN
      LET planned  == Val(planned_duration_sec)
          ratio    == Q(speech_window_sec, planned)
          grade ==
            IF RLe(Q(95, 100), ratio) /\ RLt(ratio, Q(105, 100))
              THEN <<"good", "on_time">>
            ELSE IF (RLe(Q(90, 100), ratio) /\ RLt(ratio, Q(95, 100)))
                    \/ (RLe(Q(105, 100), ratio) /\ RLe(ratio, Q(110, 100)))
              THEN <<"warning",
                     IF RLt(ratio, Q(1, 1)) THEN "under_time" ELSE "over_time">>
            ELSE IF RLt(ratio, Q(90, 100)) THEN <<"error", "under_time">>
            ELSE <<"error", "over_time">>
      IN  [ planned_sec |-> Some(RoundDiv(planned, 40)),
            used_sec    |-> Some(RoundDiv(speech_window_sec, 40)),
            diff_sec    |-> Some(RoundDiv(speech_window_sec - planned, 40)),
            ratio       |-> Some(RoundQ(ratio, 1000)),
            status      |-> grade[1],
            substatus   |-> grade[2] ]
    ELSE
      [ planned_sec |-> IF IsNone(planned_duration_sec)
                           \/ Val(planned_duration_sec) = 0
                        THEN None
                        ELSE Some(RoundDiv(Val(planned_duration_sec), 40)),
        used_sec    |-> IF speech_window_sec = 0 THEN None
                        ELSE Some(RoundDiv(speech_window_sec, 40)),
        diff_sec    |-> None,
        ratio       |-> None,
        status      |-> "na",
        substatus   |-> "na" ]

\* TimeUseItem that reports the missing plan with a null status, as the
\* coverage and microphone items do
TimeUseItemNull(planned_duration_sec, speech_window_sec) ==
    IF ~IsNone(planned_duration_sec) /\ Val(planned_duration_sec) # 0
       /\ Val(planned_duration_sec) > 0 /\ speech_window_sec > 0
    THEN
      LET planned  == Val(planned_duration_sec)
          ratio    == Q(speech_window_sec, planned)
          diff_sec == speech_window_sec - planned
          grade ==
            IF RLe(Q(95, 100), ratio) /\ RLe(ratio, Q(105, 100))
              THEN <<"good", "on_time">>
            ELSE IF (RLe(Q(90, 100), ratio) /\ RLt(ratio, Q(95, 100)))
                    \/ (RLt(Q(105, 100), ratio) /\ RLe(ratio, Q(110, 100)))
              THEN <<"warning",
                     IF RLt(ratio, Q(1, 1)) THEN "under_time" ELSE "over_time">>
            ELSE IF RLt(ratio, Q(90, 100)) THEN <<"error", "under_time">>
            ELSE <<"error", "over_time">>
      IN  [ planned_sec |-> Some(RoundDiv(planned, 40)),
            used_sec    |-> Some(RoundDiv(speech_window_sec, 40)),
            diff_sec    |-> Some(RoundDiv(diff_sec, 40)),
            ratio       |-> Some(RoundQ(ratio, 1000)),
            status      |-> grade[1],
            substatus   |-> grade[2] ]
    ELSE
      [ planned_sec |-> IF IsNone(planned_duration_sec)
                           \/ Val(planned_duration_sec) = 0
                        THEN None
                        ELSE Some(RoundDiv(Val(planned_duration_sec), 40)),
        used_sec    |-> IF speech_window_sec = 0 THEN None
                        ELSE Some(RoundDiv(speech_window_sec, 40)),
        diff_sec    |-> None,
        ratio       |-> None,
        status      |-> NoneStr,
        substatus   |-> NoneStr ]

\* planned_duration_sec is None or a number; "planned and planned > 0"
TimeUseItem(planned_duration_sec, speech_window_sec) ==
    IF ~IsNone(planned_duration_sec) /\ Val(planned_duration_sec) # 0
       /\ Val(planned_duration_sec) > 0 /\ speech_window_sec > 0
    THEN
      LET planned  == Val(planned_duration_sec)
          ratio    == Q(speech_window_sec, planned)
          diff_sec == speech_window_sec - planned
          grade ==
            IF RLe(Q(95, 100), ratio) /\ RLe(ratio, Q(105, 100))
              THEN <<"good", "on_time">>
            ELSE IF (RLe(Q(90, 100), ratio) /\ RLt(ratio, Q(95, 100)))
                    \/ (RLt(Q(105, 100), ratio) /\ RLe(ratio, Q(110, 100)))
              THEN <<"warning",
                     IF RLt(ratio, Q(1, 1)) THEN "under_time" ELSE "over_time">>
            ELSE IF RLt(ratio, Q(90, 100)) THEN <<"error", "under_time">>
            ELSE <<"error", "over_time">>
      IN  [ planned_sec |-> Some(RoundDiv(planned, 40)),
            used_sec    |-> Some(RoundDiv(speech_window_sec, 40)),
            diff_sec    |-> Some(RoundDiv(diff_sec, 40)),
            ratio       |-> Some(RoundQ(ratio, 1000)),
            status      |-> grade[1],
            substatus   |-> grade[2] ]
    ELSE
      [ planned_sec |-> IF IsNone(planned_duration_sec)
                           \/ Val(planned_duration_sec) = 0
                        THEN None
                        ELSE Some(RoundDiv(Val(planned_duration_sec), 40)),
        used_sec    |-> IF speech_window_sec = 0 THEN None
                        ELSE Some(RoundDiv(speech_window_sec, 40)),
        diff_sec    |-> None,
        ratio       |-> None,
        status      |-> "na",
        substatus   |-> "na" ]

\* SpokenRatioItem with the 0.95 end of the warning range excluded
SpokenRatioItemStrict(duration_spoken, duration_total) ==
    LET spoken_ratio ==
          IF duration_total # 0
          THEN RDiv(Q(duration_spoken, 1), RMax(Q(duration_total, 1), Q(1, 250)))
          ELSE Q(0, 1)
        grade ==
          IF RLe(Q(70, 100), spoken_ratio) /\ RLe(spoken_ratio, Q(90, 100))
            THEN <<"good", "ok">>
          ELSE IF RLe(Q(60, 100), spoken_ratio) /\ RLt(spoken_ratio, Q(70, 100))
            THEN <<"warning", "too_low">>
          ELSE IF RLt(Q(90, 100), spoken_ratio) /\ RLt(spoken_ratio, Q(95, 100))
            THEN <<"warning", "too_high">>
          ELSE IF RLt(spoken_ratio, Q(60, 100)) THEN <<"error", "too_low">>
          ELSE <<"error", "too_high">>
    IN  [ value     |-> RoundQ(spoken_ratio, 1000),
          status    |-> grade[1],
          substatus |-> grade[2] ]

SpokenRatioItem(duration_spoken, duration_total) ==
    LET \* max(duration_total, 1e-6): 1e-6 s is 1/250 of a time unit
        spoken_ratio ==
          IF duration_total # 0
          THEN RDiv(Q(duration_spoken, 1), RMax(Q(duration_total, 1), Q(1, 250)))
          ELSE Q(0, 1)
        grade ==
          IF RLe(Q(70, 100), spoken_ratio) /\ RLe(spoken_ratio, Q(90, 100))
            THEN <<"good", "ok">>
          ELSE IF RLe(Q(60, 100), spoken_ratio) /\ RLt(spoken_ratio, Q(70, 100))
            THEN <<"warning", "too_low">>
          ELSE IF RLt(Q(90, 100), spoken_ratio) /\ RLe(spoken_ratio, Q(95, 100))
            THEN <<"warning", "too_high">>
          ELSE IF RLt(spoken_ratio, Q(60, 100)) THEN <<"error", "too_low">>
          ELSE <<"error", "too_high">>
    IN  [ value     |-> RoundQ(spoken_ratio, 1000),
          status    |-> grade[1],
          substatus |-> grade[2] ]

\* build_audio_checklist that adds the coverage item only when there is a
\* coverage result
build_audio_checklist_optional(a, mq) ==
    LET items ==
          [ pace         |-> PaceItem(a.wpm_spoken),
            pauses       |-> PausesItem(a.long_pauses, a.duration_total),
            fillers      |-> FillersItem(a.filler_count_total, a.words_total),
            hedges       |-> HedgesItem(a.hedge_count_total, a.words_total),
            coverage     |-> CoverageItem(a.coverage),
            time_use     |-> TimeUseItem(a.planned_duration_sec, a.speech_window_sec),
            spoken_ratio |-> SpokenRatioItem(a.duration_spoken, a.duration_total),
            mic_loudness |-> mq.mic_loudness,
            mic_noise    |-> mq.mic_noise ]
    IN  IF IsNone(a.coverage)
        THEN [k \in DOMAIN items \ {"coverage"} |-> items[k]]
        ELSE items

build_audio_checklist(a, mq) ==
    [ pace         |-> PaceItem(a.wpm_spoken),
      pauses       |-> PausesItem(a.long_pauses, a.duration_total),
      fillers      |-> FillersItem(a.filler_count_total, a.words_total),
      hedges       |-> HedgesItem(a.hedge_count_total, a.words_total),
      coverage     |-> CoverageItem(a.coverage),
      time_use     |-> TimeUseItem(a.planned_duration_sec, a.speech_window_sec),
      spoken_ratio |-> SpokenRatioItem(a.duration_spoken, a.duration_total),
      mic_loudness |-> mq.mic_loudness,
      mic_noise    |-> mq.mic_noise ]

-----------------------------------------------------------------------------
(* Text.  A string is a sequence of one-character strings.  The alphabet   *)
(* of the model has the letters "a" and "b", the capital "A" and the       *)
(* punctuation mark ","; " " separates words.                              *)

Letters  == {"a", "b", "A"}

Lower(c) == IF c = "A" THEN "a" ELSE c

RECURSIVE JoinSp(_)
\* ' '.join(parts)
JoinSp(parts) ==
    IF parts = <<>> THEN <<>>
    ELSE IF Len(parts) = 1 THEN parts[1]
    ELSE parts[1] \o <<" ">> \o JoinSp(Tail(parts))

\* the non-empty elements of a sequence of strings
NonEmpty(parts) == SelectSeq(parts, LAMBDA t : t # <<>>)

\* number of matches of the word regex: maximal runs of letters
word_count(str) ==
    Cardinality({i \in DOMAIN str :
                   /\ str[i] \in Letters
                   /\ (i = 1 \/ str[i - 1] \notin Letters)})

-----------------------------------------------------------------------------
(* Transcription and voice activity detection.  The recogniser returns     *)
(* segments [start, end, text, words], every word [word, start, end]; the  *)
(* detector returns a timeline of <<start, end>> pairs.                    *)

RECURSIVE SeqSum(_)
SeqSum(xs) == IF xs = <<>> THEN 0 ELSE Head(xs) + SeqSum(Tail(xs))

RECURSIVE Concat(_)
Concat(xss) == IF xss = <<>> THEN <<>> ELSE Head(xss) \o Concat(Tail(xss))

SetMin(S) == CHOOSE m \in S : \A x \in S : m <= x
SetMax(S) == CHOOSE m \in S : \A x \in S : x <= m

\* the tuple (transcript, words, segments, total_dur) of transcribe_whisper
transcribe_whisper(segments) ==
    [ transcript |-> JoinSp([i \in DOMAIN segments |-> segments[i].text]),
      words      |-> Concat([i \in DOMAIN segments |-> segments[i].words]),
      segments   |-> segments,
      total_dur  |-> IF segments # <<>> THEN segments[Len(segments)].end
                     ELSE 0 ]

\* first_word_start, last_word_end and speech_window_sec of analyze
SpeechWindow(words) ==
    IF words # <<>>
    THEN LET first_word_start == SetMin({words[i].start : i \in DOMAIN words})
             last_word_end    == SetMax({words[i].end : i \in DOMAIN words})
         IN  [ first_word_start  |-> Some(first_word_start),
               last_word_end     |-> Some(last_word_end),
               speech_window_sec |-> Max2(0, last_word_end - first_word_start) ]
    ELSE [ first_word_start  |-> None,
           last_word_end     |-> None,
           speech_window_sec |-> 0 ]

RECURSIVE InsertByStart(_, _)
InsertByStart(seg, sorted) ==
    IF sorted = <<>> THEN <<seg>>
    ELSE IF seg[1] < Head(sorted)[1] THEN <<seg>> \o sorted
    ELSE <<Head(sorted)>> \o InsertByStart(seg, Tail(sorted))

RECURSIVE SortedByStart(_)
\* sorted(segs, key=lambda x: x[0]): stable, ascending start
SortedByStart(segs) ==
    IF segs = <<>> THEN <<>>
    ELSE InsertByStart(segs[Len(segs)], SortedByStart(SubSeq(segs, 1, Len(segs) - 1)))

compute_speech_segments(timeline) == SortedByStart(timeline)

\* round(t, 3) of a time: the nearest whole millisecond
Round3(t) == 4 * RoundDiv(t, 4)

\* long_pauses_from_segments that reports a gap only above the threshold
long_pauses_from_segments_above(speech_segs, threshold_sec, total_duration) ==
    LET n     == Len(speech_segs)
        gap(i) == speech_segs[i + 1][1] - speech_segs[i][2]
        pairs == SelectSeq([i \in 1..(IF n = 0 THEN 0 ELSE n - 1) |-> i],
                           LAMBDA i : gap(i) > threshold_sec)
    IN  [ pauses       |-> [k \in DOMAIN pairs |->
                             [ start |-> Round3(speech_segs[pairs[k]][2]),
                               end   |-> Round3(speech_segs[pairs[k] + 1][1]),
                               dur   |-> Round3(gap(pairs[k])) ]],
          spoken_time  |-> SeqSum([i \in 1..n |->
                                    speech_segs[i][2] - speech_segs[i][1]]),
          overall_time |-> Max2(total_duration,
                                IF n > 0 THEN speech_segs[n][2] ELSE 0) ]

\* long_pauses_from_segments that takes the reported total as the overall
\* time
long_pauses_from_segments_reported(speech_segs, threshold_sec, total_duration) ==
    LET n     == Len(speech_segs)
        gap(i) == speech_segs[i + 1][1] - speech_segs[i][2]
        pairs == SelectSeq([i \in 1..(IF n = 0 THEN 0 ELSE n - 1) |-> i],
                           LAMBDA i : gap(i) >= threshold_sec)
    IN  [ pauses       |-> [k \in DOMAIN pairs |->
                             [ start |-> Round3(speech_segs[pairs[k]][2]),
                               end   |-> Round3(speech_segs[pairs[k] + 1][1]),
                               dur   |-> Round3(gap(pairs[k])) ]],
          spoken_time  |-> SeqSum([i \in 1..n |->
                                    speech_segs[i][2] - speech_segs[i][1]]),
          overall_time |-> total_duration ]

\* the tuple (pauses, spoken_time, overall_time)
long_pauses_from_segments(speech_segs, threshold_sec, total_duration) ==
    LET n     == Len(speech_segs)
        gap(i) == speech_segs[i + 1][1] - speech_segs[i][2]
        pairs == SelectSeq([i \in 1..(IF n = 0 THEN 0 ELSE n - 1) |-> i],
                           LAMBDA i : gap(i) >= threshold_sec)
    IN  [ pauses       |-> [k \in DOMAIN pairs |->
                             [ start |-> Round3(speech_segs[pairs[k]][2]),
                               end   |-> Round3(speech_segs[pairs[k] + 1][1]),
                               dur   |-> Round3(gap(pairs[k])) ]],
          spoken_time  |-> SeqSum([i \in 1..n |->
                                    speech_segs[i][2] - speech_segs[i][1]]),
          overall_time |-> Max2(total_duration,
                                IF n > 0 THEN speech_segs[n][2] ELSE 0) ]

\* round((n_words / max(t, 1e-6)) * 60.0, 1) if t > 0 else 0.0, in hundredths
\* of a word per minute
WpmOver(n_words, t) ==
    IF t > 0
    THEN 10 * RoundQ(RDiv(Q(n_words * 240000, 1), RMax(Q(t, 1), Q(1, 250))), 10)
    ELSE 0

-----------------------------------------------------------------------------
(* Pattern search.  A pattern of the catalogue is a regex \bP\b with a     *)
(* literal phrase P, such as \bну\b or \bмне кажется\b; the model keeps P.  *)

\* re.sub(r'[^\wа-яё-]+', '', w['word'].lower())
Normalize(word) ==
    SelectSeq([i \in DOMAIN word |-> Lower(word[i])], LAMBDA c : c \in Letters)

\* \b at offset k of text (between text[k] and text[k + 1], counted from 1)
WordBoundary(text, k) ==
    LET isw(j) == j \in DOMAIN text /\ text[j] \in Letters
    IN  isw(k) # isw(k + 1)

MatchAt(pat, text, pos) ==
    /\ pos + Len(pat) <= Len(text)
    /\ \A k \in DOMAIN pat : text[pos + k] = pat[k]
    /\ WordBoundary(text, pos)
    /\ WordBoundary(text, pos + Len(pat))

RECURSIVE FindIter(_, _, _)
\* re.finditer: the non-overlapping matches from offset pos on, leftmost
\* first, each as [start, end) offsets counted from 0
FindIter(pat, text, pos) ==
    IF pos + Len(pat) > Len(text) THEN <<>>
    ELSE IF MatchAt(pat, text, pos)
         THEN <<[start |-> pos, end |-> pos + Len(pat)]>>
              \o FindIter(pat, text, pos + Len(pat))
         ELSE FindIter(pat, text, pos + 1)

RECURSIVE Positions(_, _, _)
\* the list positions: (offset in joined, index of the word) of every
\* non-empty token, from word index i (counted from 0) and offset acc on
Positions(tokens, i, acc) ==
    IF i >= Len(tokens) THEN <<>>
    ELSE IF tokens[i + 1] = <<>> THEN Positions(tokens, i + 1, acc)
    ELSE <<[acc_pos |-> acc, idx |-> i]>>
         \o Positions(tokens, i + 1, acc + Len(tokens[i + 1]) + 1)

RECURSIVE FloorLookup(_, _, _)
\* the loop of char_to_token_idx over the rest of positions
FloorLookup(positions, char_pos, prev_idx) ==
    IF positions = <<>> THEN prev_idx
    ELSE IF Head(positions).acc_pos <= char_pos
         THEN FloorLookup(Tail(positions), char_pos, Head(positions).idx)
         ELSE prev_idx

char_to_token_idx(positions, char_pos) == FloorLookup(positions, char_pos, 0)

\* seq[i] of Python: i counted from 0, a negative i from the end
InRange(seq, i) == -Len(seq) <= i /\ i < Len(seq)
PyIndex(seq, i) == IF i >= 0 THEN seq[i + 1] ELSE seq[Len(seq) + i + 1]

\* find_patterns_with_timestamps without the clamp of the end index
find_patterns_with_timestamps_unclamped(words, patterns) ==
    LET tokens    == [i \in DOMAIN words |-> Normalize(words[i].word)]
        joined    == JoinSp(NonEmpty(tokens))
        positions == Positions(tokens, 0, 0)
        hit(m) ==
          LET start_idx == char_to_token_idx(positions, m.start)
              end_idx   == char_to_token_idx(positions, m.end) + 1
              ok        == words = <<>>
                           \/ (InRange(words, start_idx) /\ InRange(words, end_idx))
              start_t   == IF words # <<>> THEN PyIndex(words, start_idx).start
                           ELSE 0
              end_t     == IF words # <<>> THEN PyIndex(words, end_idx).end
                           ELSE start_t
          IN  IF ok
              THEN [ ok |-> TRUE, start_idx |-> start_idx, end_idx |-> end_idx,
                     start |-> Round3(start_t), end |-> Round3(end_t),
                     text |-> SubSeq(joined, m.start + 1, m.end) ]
              ELSE [ ok |-> FALSE, start_idx |-> start_idx, end_idx |-> end_idx ]
        found(pat) == LET ms == FindIter(pat, joined, 0)
                      IN  [k \in DOMAIN ms |-> hit(ms[k])]
        all     == [j \in DOMAIN patterns |->
                     [ pattern     |-> patterns[j],
                       count       |-> Len(found(patterns[j])),
                       occurrences |-> found(patterns[j]) ]]
        results == SelectSeq(all, LAMBDA r : r.count # 0)
    IN  [ raised  |-> \E j \in DOMAIN all :
                        \E k \in DOMAIN all[j].occurrences :
                          ~all[j].occurrences[k].ok,
          results |-> results,
          total   |-> SeqSum([j \in DOMAIN results |-> results[j].count]) ]

\* the pair (results, total); raised is TRUE when an index expression of the
\* function is out of range (IndexError).  Every occurrence also keeps the
\* two word indices it was read from.
find_patterns_with_timestamps(words, patterns) ==
    LET tokens    == [i \in DOMAIN words |-> Normalize(words[i].word)]
        joined    == JoinSp(NonEmpty(tokens))
        positions == Positions(tokens, 0, 0)
        hit(m) ==
          LET start_idx == char_to_token_idx(positions, m.start)
              end_idx   == LET e == char_to_token_idx(positions, m.end) + 1
                           IN  IF e <= Len(words) - 1 THEN e ELSE Len(words) - 1
              ok        == words = <<>>
                           \/ (InRange(words, start_idx) /\ InRange(words, end_idx))
              start_t   == IF words # <<>> THEN PyIndex(words, start_idx).start
                           ELSE 0
              end_t     == IF words # <<>> THEN PyIndex(words, end_idx).end
                           ELSE start_t
          IN  IF ok
              THEN [ ok |-> TRUE, start_idx |-> start_idx, end_idx |-> end_idx,
                     start |-> Round3(start_t), end |-> Round3(end_t),
                     text |-> SubSeq(joined, m.start + 1, m.end) ]
              ELSE [ ok |-> FALSE, start_idx |-> start_idx, end_idx |-> end_idx ]
        found(pat) == LET ms == FindIter(pat, joined, 0)
                      IN  [k \in DOMAIN ms |-> hit(ms[k])]
        all     == [j \in DOMAIN patterns |->
                     [ pattern     |-> patterns[j],
                       count       |-> Len(found(patterns[j])),
                       occurrences |-> found(patterns[j]) ]]
        results == SelectSeq(all, LAMBDA r : r.count # 0)
    IN  [ raised  |-> \E j \in DOMAIN all :
                        \E k \in DOMAIN all[j].occurrences :
                          ~all[j].occurrences[k].ok,
          results |-> results,
          total   |-> SeqSum([j \in DOMAIN results |-> results[j].count]) ]

\* the catalogues of patterns_ru.py: single words and phrases of two words,
\* one phrase ending in a word that is a pattern of its own (as "мне кажется"
\* and "кажется")
FILLERS_PATTERNS == << <<"a">> >>
HEDGES_PATTERNS  == << <<"a", " ", "b">>, <<"b">> >>

-----------------------------------------------------------------------------
(* Script coverage.  A script is a string over the letters, " " and the    *)
(* separators "." and ";".  The sentence encoder is outside the program:   *)
(* an embedding [ok, sims] either fails or yields the matrix of cosine     *)
(* similarities sims[unit][segment text], in units of 1e-4.                *)

COVERAGE_THRESHOLD   == 6500
SHORT_UNIT_WORDS     == 4
SHORT_UNIT_THRESHOLD == 4500

Separators == {".", ";"}

RECURSIVE SkipSpaces(_, _)
SkipSpaces(text, i) ==
    IF i <= Len(text) /\ text[i] = " " THEN SkipSpaces(text, i + 1) ELSE i

RECURSIVE SplitRaw(_, _, _)
\* re.split on a separator followed by white space or by the end of the text
SplitRaw(text, i, cur) ==
    IF i > Len(text) THEN <<cur>>
    ELSE IF text[i] \in Separators /\ (i = Len(text) \/ text[i + 1] = " ")
         THEN <<cur>> \o SplitRaw(text, SkipSpaces(text, i + 1), <<>>)
         ELSE SplitRaw(text, i + 1, Append(cur, text[i]))

RECURSIVE Strip(_)
Strip(str) ==
    IF str = <<>> THEN <<>>
    ELSE IF Head(str) = " " THEN Strip(Tail(str))
    ELSE IF str[Len(str)] = " " THEN Strip(SubSeq(str, 1, Len(str) - 1))
    ELSE str

split_script_units(text) ==
    IF text = <<>> THEN <<>>
    ELSE LET raw   == SplitRaw(text, 1, <<>>)
             units == SelectSeq([i \in DOMAIN raw |-> Strip(raw[i])],
                                LAMBDA u : u # <<>>)
         IN  SelectSeq(units, LAMBDA u : word_count(u) >= 3)

RECURSIVE GroupFrom(_, _, _, _, _, _)
\* the loop of group_segment_texts from segment i on; buf_text and
\* window_start as the loop holds them (window_start is only read after the
\* first segment has set it)
GroupFrom(segments, i, buf_text, window_start, max_seconds, max_words) ==
    IF i > Len(segments)
    THEN IF buf_text # <<>> THEN <<JoinSp(buf_text)>> ELSE <<>>
    ELSE LET seg       == segments[i]
             ws        == IF i = 1 THEN seg.start ELSE window_start
             candidate == JoinSp(Append(buf_text, Strip(seg.text)))
         IN  IF seg.end - ws <= max_seconds /\ word_count(candidate) <= max_words
             THEN GroupFrom(segments, i + 1, Append(buf_text, Strip(seg.text)),
                            ws, max_seconds, max_words)
             ELSE (IF buf_text # <<>> THEN <<JoinSp(buf_text)>> ELSE <<>>)
                  \o GroupFrom(segments, i + 1, <<Strip(seg.text)>>,
                               seg.start, max_seconds, max_words)

\* group_segment_texts that lets a window hold one word more
group_segment_texts_one_more(segments, max_seconds, max_words) ==
    GroupFrom(segments, 1, <<>>, 0, max_seconds, max_words + 1)

\* group_segment_texts that does not emit the window left open at the end
group_segment_texts_no_flush(segments, max_seconds, max_words) ==
    LET out == GroupFrom(segments, 1, <<>>, 0, max_seconds, max_words)
    IN  IF segments = <<>> THEN out ELSE SubSeq(out, 1, Len(out) - 1)

group_segment_texts(segments, max_seconds, max_words) ==
    GroupFrom(segments, 1, <<>>, 0, max_seconds, max_words)

RECURSIVE GroupWindows(_, _, _, _, _, _)
\* the same loop, with the indices of the segments whose texts buf_text
\* holds: the windows of segments behind the emitted texts
GroupWindows(segments, i, buf, window_start, max_seconds, max_words) ==
    IF i > Len(segments)
    THEN IF buf # <<>> THEN <<buf>> ELSE <<>>
    ELSE LET seg       == segments[i]
             ws        == IF i = 1 THEN seg.start ELSE window_start
             buf_text  == [k \in DOMAIN buf |-> Strip(segments[buf[k]].text)]
             candidate == JoinSp(Append(buf_text, Strip(seg.text)))
         IN  IF seg.end - ws <= max_seconds /\ word_count(candidate) <= max_words
             THEN GroupWindows(segments, i + 1, Append(buf, i), ws,
                               max_seconds, max_words)
             ELSE (IF buf # <<>> THEN <<buf>> ELSE <<>>)
                  \o GroupWindows(segments, i + 1, <<i>>, seg.start,
                                  max_seconds, max_words)

\* int(np.argmax(row)): the first index of the largest entry, counted from 0
ArgMax(row) ==
    (CHOOSE j \in DOMAIN row :
        /\ \A k \in DOMAIN row : row[k] <= row[j]
        /\ \A k \in DOMAIN row : k < j => row[k] < row[j]) - 1

\* compute_coverage with the base threshold applied to every unit
compute_coverage_one_threshold(script_text, seg_texts, threshold, embedding) ==
    IF script_text = <<>> \/ seg_texts = <<>>
    THEN [raised |-> FALSE, embed_calls |-> 0, encode_calls |-> 0, result |-> None]
    ELSE
      LET units == split_script_units(script_text)
      IN  IF units = <<>>
          THEN [ raised |-> FALSE, embed_calls |-> 0, encode_calls |-> 0,
                 result |-> Some([coverage |-> None, missing |-> <<>>,
                                  matches |-> <<>>]) ]
          ELSE IF ~embedding.ok
          THEN [ raised |-> TRUE, embed_calls |-> 1,
                 encode_calls |-> embedding.uses, result |-> None ]
          ELSE
            LET sims == embedding.sims
                unit_thr(i) == threshold
                j(i)     == ArgMax(sims[i])
                score(i) == sims[i][j(i) + 1]
                idx      == [i \in DOMAIN units |-> i]
                hit      == SelectSeq(idx, LAMBDA i : score(i) >= unit_thr(i))
                miss     == SelectSeq(idx, LAMBDA i : ~(score(i) >= unit_thr(i)))
                matches  == [k \in DOMAIN hit |->
                              [ unit_idx   |-> hit[k] - 1,
                                unit       |-> units[hit[k]],
                                seg_idx    |-> j(hit[k]),
                                seg        |-> seg_texts[j(hit[k]) + 1],
                                similarity |-> RoundDiv(score(hit[k]), 10) ]]
                missing  == [k \in DOMAIN miss |->
                              [ unit_idx       |-> miss[k] - 1,
                                unit           |-> units[miss[k]],
                                max_similarity |-> RoundDiv(score(miss[k]), 10) ]]
                coverage == RoundDiv(1000 * (Len(units) - Len(missing)), Len(units))
            IN  [ raised |-> FALSE, embed_calls |-> 1, encode_calls |-> 2,
                  result |-> Some([coverage |-> Some(coverage),
                                   missing |-> missing, matches |-> matches]) ]

\* compute_coverage that lists a unit as missing when it is below the base
\* threshold
compute_coverage_two_tests(script_text, seg_texts, threshold, embedding) ==
    IF script_text = <<>> \/ seg_texts = <<>>
    THEN [raised |-> FALSE, embed_calls |-> 0, encode_calls |-> 0, result |-> None]
    ELSE
      LET units == split_script_units(script_text)
      IN  IF units = <<>>
          THEN [ raised |-> FALSE, embed_calls |-> 0, encode_calls |-> 0,
                 result |-> Some([coverage |-> None, missing |-> <<>>,
                                  matches |-> <<>>]) ]
          ELSE IF ~embedding.ok
          THEN [ raised |-> TRUE, embed_calls |-> 1,
                 encode_calls |-> embedding.uses, result |-> None ]
          ELSE
            LET sims == embedding.sims
                unit_thr(i) == IF word_count(units[i]) <= SHORT_UNIT_WORDS
                               THEN SHORT_UNIT_THRESHOLD ELSE threshold
                j(i)     == ArgMax(sims[i])
                score(i) == sims[i][j(i) + 1]
                idx      == [i \in DOMAIN units |-> i]
                hit      == SelectSeq(idx, LAMBDA i : score(i) >= unit_thr(i))
                miss     == SelectSeq(idx, LAMBDA i : score(i) < threshold)
                matches  == [k \in DOMAIN hit |->
                              [ unit_idx   |-> hit[k] - 1,
                                unit       |-> units[hit[k]],
                                seg_idx    |-> j(hit[k]),
                                seg        |-> seg_texts[j(hit[k]) + 1],
                                similarity |-> RoundDiv(score(hit[k]), 10) ]]
                missing  == [k \in DOMAIN miss |->
                              [ unit_idx       |-> miss[k] - 1,
                                unit           |-> units[miss[k]],
                                max_similarity |-> RoundDiv(score(miss[k]), 10) ]]
                coverage == RoundDiv(1000 * (Len(units) - Len(missing)), Len(units))
            IN  [ raised |-> FALSE, embed_calls |-> 1, encode_calls |-> 2,
                  result |-> Some([coverage |-> Some(coverage),
                                   missing |-> missing, matches |-> matches]) ]

\* compute_coverage that loads the encoder before it looks at the units
compute_coverage_eager(script_text, seg_texts, threshold, embedding) ==
    IF script_text = <<>> \/ seg_texts = <<>>
    THEN [raised |-> FALSE, embed_calls |-> 0, encode_calls |-> 0, result |-> None]
    ELSE
      LET units == split_script_units(script_text)
      IN  IF units = <<>>
          THEN [ raised |-> ~embedding.ok, embed_calls |-> 1, encode_calls |-> 0,
                 result |-> Some([coverage |-> None, missing |-> <<>>,
                                  matches |-> <<>>]) ]
          ELSE IF ~embedding.ok
          THEN [ raised |-> TRUE, embed_calls |-> 1,
                 encode_calls |-> embedding.uses, result |-> None ]
          ELSE
            LET sims == embedding.sims
                unit_thr(i) == IF word_count(units[i]) <= SHORT_UNIT_WORDS
                               THEN SHORT_UNIT_THRESHOLD ELSE threshold
                j(i)     == ArgMax(sims[i])
                score(i) == sims[i][j(i) + 1]
                idx      == [i \in DOMAIN units |-> i]
                hit      == SelectSeq(idx, LAMBDA i : score(i) >= unit_thr(i))
                miss     == SelectSeq(idx, LAMBDA i : ~(score(i) >= unit_thr(i)))
                matches  == [k \in DOMAIN hit |->
                              [ unit_idx   |-> hit[k] - 1,
                                unit       |-> units[hit[k]],
                                seg_idx    |-> j(hit[k]),
                                seg        |-> seg_texts[j(hit[k]) + 1],
                                similarity |-> RoundDiv(score(hit[k]), 10) ]]
                missing  == [k \in DOMAIN miss |->
                              [ unit_idx       |-> miss[k] - 1,
                                unit           |-> units[miss[k]],
                                max_similarity |-> RoundDiv(score(miss[k]), 10) ]]
                coverage == RoundDiv(1000 * (Len(units) - Len(missing)), Len(units))
            IN  [ raised |-> FALSE, embed_calls |-> 1, encode_calls |-> 2,
                  result |-> Some([coverage |-> Some(coverage),
                                   missing |-> missing, matches |-> matches]) ]

\* compute_coverage: result is the returned value (None or a dictionary),
\* raised is TRUE when the encoder failed, embed_calls counts the loads of
\* the sentence encoder and encode_calls its uses (the units, then the
\* segment texts)
compute_coverage(script_text, seg_texts, threshold, embedding) ==
    IF script_text = <<>> \/ seg_texts = <<>>
    THEN [raised |-> FALSE, embed_calls |-> 0, encode_calls |-> 0, result |-> None]
    ELSE
      LET units == split_script_units(script_text)
      IN  IF units = <<>>
          THEN [ raised |-> FALSE, embed_calls |-> 0, encode_calls |-> 0,
                 result |-> Some([coverage |-> None, missing |-> <<>>,
                                  matches |-> <<>>]) ]
          ELSE IF ~embedding.ok
          THEN [ raised |-> TRUE, embed_calls |-> 1,
                 encode_calls |-> embedding.uses, result |-> None ]
          ELSE
            LET sims == embedding.sims
                unit_thr(i) == IF word_count(units[i]) <= SHORT_UNIT_WORDS
                               THEN SHORT_UNIT_THRESHOLD ELSE threshold
                j(i)     == ArgMax(sims[i])
                score(i) == sims[i][j(i) + 1]
                idx      == [i \in DOMAIN units |-> i]
                hit      == SelectSeq(idx, LAMBDA i : score(i) >= unit_thr(i))
                miss     == SelectSeq(idx, LAMBDA i : ~(score(i) >= unit_thr(i)))
                matches  == [k \in DOMAIN hit |->
                              [ unit_idx   |-> hit[k] - 1,
                                unit       |-> units[hit[k]],
                                seg_idx    |-> j(hit[k]),
                                seg        |-> seg_texts[j(hit[k]) + 1],
                                similarity |-> RoundDiv(score(hit[k]), 10) ]]
                missing  == [k \in DOMAIN miss |->
                              [ unit_idx       |-> miss[k] - 1,
                                unit           |-> units[miss[k]],
                                max_similarity |-> RoundDiv(score(miss[k]), 10) ]]
                coverage == RoundDiv(1000 * (Len(units) - Len(missing)), Len(units))
            IN  [ raised |-> FALSE, embed_calls |-> 1, encode_calls |-> 2,
                  result |-> Some([coverage |-> Some(coverage),
                                   missing |-> missing, matches |-> matches]) ]

-----------------------------------------------------------------------------
(* Bounds of the input domains *)

MaxWpm          == 170
MaxPauses       == 2
MaxPauseSec     == 4
MaxTotalSteps   == 6
MaxWords        == 210
MaxCount        == 3
MaxMissing      == 4
MaxPlannedSteps == 6
MaxWindowSec    == 140
MaxTotalSec     == 105
MaxDbDepth      == 30
MaxPeakDepth    == 2
MaxNoiseDepth   == 60

-----------------------------------------------------------------------------
(* Input domains.  Every domain steps through its range and adds the       *)
(* neighbours one unit below and above each step, so that both sides of    *)
(* every decimal boundary are drawn.                                       *)

Near(S) == {x + d : x \in S, d \in -1..1}

RECURSIVE SumDur(_)
SumDur(ps) == IF ps = <<>> THEN 0 ELSE Head(ps).dur + SumDur(Tail(ps))

Sig(r, p, c) == [size |-> 1, rms |-> r, peak |-> p, clip |-> c]
EmptySig     == [size |-> 0, rms |-> 0, peak |-> 0, clip |-> 0]

Unit(i)      == [unit_idx |-> i - 1, unit |-> i]
Missing(m)   == [i \in 1..m |-> Unit(i)]
Cov(v, m)    == Some([coverage |-> v, missing |-> Missing(m), matches |-> <<>>])

PaceValues    == {p \in Near({Wpm(w) : w \in 0..MaxWpm}) : p >= 0}
PauseDurs     == Near({Sec(s) : s \in 3..MaxPauseSec})
PauseLists    == UNION {[1..n -> {[dur |-> x] : x \in PauseDurs}] : n \in 0..MaxPauses}
TotalDurs     == {t \in Near({Sec(40 * k) : k \in 0..MaxTotalSteps}) : t >= 0}
CovValues     == {v \in Near({Pct(p) : p \in 0..100}) : v >= 0 /\ v <= Pct(100)}
Coverages     == {None, Cov(None, 0)}
                 \cup {Cov(Some(v), m) : v \in CovValues, m \in 0..MaxMissing}
PlannedValues == {None} \cup {Some(Sec(20 * k)) : k \in -1..MaxPlannedSteps}
WindowValues  == {w \in Near({Sec(s) : s \in 0..MaxWindowSec}) : w >= 0}
SpokenValues  == {t \in Near({Sec(s) : s \in 0..MaxTotalSec}) : t >= 0}
RatioTotals   == {0, Sec(20), Sec(MaxTotalSec)}
RmsValues     == {r \in Near({Db(0 - x) : x \in 0..MaxDbDepth}) : r <= 0}
                 \cup {Db(-240)}
PeakValues    == {r \in Near({Db(0 - x) : x \in 0..MaxPeakDepth}) : r <= 0}
ClipValues    == {0, 1, 499, 500, 501}
\* samples lie in [-1, 1]: rms <= peak <= 0 dBFS, and a sample counted as
\* clipped (|x| >= 0.999) puts the peak at -0.009 dBFS or above
SpeechSigs    == {Sig(r, p, c) : r \in RmsValues, p \in PeakValues, c \in ClipValues}
                 \cup {Sig(r, r, 0) : r \in RmsValues}
RealSigs      == {x \in SpeechSigs : x.rms <= x.peak /\ (x.clip > 0 => x.peak >= -1)}
NoiseSigs     == {Sig(r, r, 0) :
                    r \in {n \in Near({Db(0 - x) : x \in 0..MaxNoiseDepth}) : n <= 0}}

Base ==
    [ wpm_spoken           |-> Wpm(125),
      long_pauses          |-> <<>>,
      duration_total       |-> Sec(60),
      duration_spoken      |-> Sec(48),
      words_total          |-> 100,
      filler_count_total   |-> 0,
      hedge_count_total    |-> 0,
      coverage             |-> None,
      planned_duration_sec |-> Some(0),
      speech_window_sec    |-> Sec(55),
      speech_sig           |-> Sig(Db(-18), Db(-6), 0),
      noise_sig            |-> Sig(Db(-50), Db(-50), 0) ]

PaceInputs   == {[Base EXCEPT !.wpm_spoken = p] : p \in PaceValues}
\* the pauses lie between speech segments inside the total duration
PausesInputs == {[Base EXCEPT !.long_pauses = ps, !.duration_total = t,
                              !.duration_spoken = t - SumDur(ps)] :
                    <<ps, t>> \in {x \in PauseLists \X TotalDurs : SumDur(x[1]) <= x[2]}}
WordsInputs  == {[Base EXCEPT !.words_total = w, !.filler_count_total = f,
                              !.hedge_count_total = h] :
                    w \in 0..MaxWords, f \in 0..MaxCount, h \in 0..MaxCount}
CoverageInputs == {[Base EXCEPT !.coverage = c] : c \in Coverages}
TimeInputs   == {[Base EXCEPT !.planned_duration_sec = p, !.speech_window_sec = w] :
                    p \in PlannedValues, w \in WindowValues}
\* speech segments do not overlap: the spoken time is within the total
RatioInputs  == {[Base EXCEPT !.duration_spoken = s, !.duration_total = t] :
                    <<s, t>> \in {x \in SpokenValues \X RatioTotals : x[1] <= x[2]}}
MicInputs    == {[Base EXCEPT !.speech_sig = s] : s \in RealSigs \cup {EmptySig}}
                \cup {[Base EXCEPT !.speech_sig = s, !.noise_sig = n] :
                        s \in {EmptySig, Sig(Db(-18), Db(-6), 0), Sig(Db(-30), Db(-20), 0)},
                        n \in NoiseSigs \cup {EmptySig}}
\* every optional or possibly empty input, absent and present
RunDomain ==
    [ wpm_spoken           : {0, Wpm(125)},
      long_pauses          : {<<>>, <<[dur |-> Sec(5)]>>},
      duration_total       : {0, Sec(60)},
      duration_spoken      : {0, Sec(48)},
      words_total          : {0, 100},
      filler_count_total   : {0, 2},
      hedge_count_total    : {0, 1},
      coverage             : {None, Cov(None, 0), Cov(Some(Pct(80)), 1)},
      planned_duration_sec : {None, Some(0), Some(Sec(60))},
      speech_window_sec    : {0, Sec(55)},
      speech_sig           : {EmptySig, Sig(Db(-18), Db(-6), 0)},
      noise_sig            : {EmptySig, Sig(Db(-50), Db(-50), 0)} ]

\* what one run of analyze derives from the same words and segments agrees:
\* no duration means no speech, no speech means no pauses, the rate is 0
\* exactly when there are no words or no speech, and without words there
\* are no pattern hits and no speech window
Coherent(a) ==
    /\ a.duration_total = 0 => a.duration_spoken = 0
    /\ a.duration_spoken = 0 => a.long_pauses = <<>>
    /\ (a.wpm_spoken = 0) <=> (a.words_total = 0 \/ a.duration_spoken = 0)
    /\ a.words_total = 0 =>
          /\ a.filler_count_total = 0
          /\ a.hedge_count_total = 0
          /\ a.speech_window_sec = 0

RunInputs == {a \in RunDomain : Coherent(a)}

-----------------------------------------------------------------------------
(* The signals of analyze_mic_quality.  A recording is its length n in     *)
(* samples at 16 kHz (4 samples per time unit) and the levels a            *)
(* measurement reads of its speech and of its background.                  *)

SamplesPerUnit == 4
MinNoiseGap    == 600

\* extract_segments_signal: the number of samples of the selected parts
ExtractedSize(n, segments) ==
    SeqSum([k \in DOMAIN segments |->
              LET i == Max2(0, SamplesPerUnit * segments[k][1])
                  j == IF n <= SamplesPerUnit * segments[k][2] THEN n
                       ELSE SamplesPerUnit * segments[k][2]
              IN  IF j > i THEN j - i ELSE 0])

RECURSIVE InvertFrom(_, _, _)
\* the loop of invert_segments over the rest of the sorted segments, cur as
\* the loop holds it, and the closing gap after the loop
InvertFrom(segs, cur, total_sec) ==
    IF segs = <<>>
    THEN IF cur < total_sec THEN << <<cur, total_sec>> >> ELSE <<>>
    ELSE LET s == Max2(0, Head(segs)[1])
             e == Max2(s, Head(segs)[2])
         IN  (IF s > cur
              THEN << <<cur, IF s <= total_sec THEN s ELSE total_sec>> >>
              ELSE <<>>)
             \o InvertFrom(Tail(segs), Max2(cur, e), total_sec)

\* invert_segments that drops a gap of exactly 0.15 s
invert_segments_above(total_len, segments) ==
    LET total_sec == total_len \div SamplesPerUnit
        inv       == InvertFrom(SortedByStart(segments), 0, total_sec)
    IN  SelectSeq(inv, LAMBDA g : g[2] - g[1] > MinNoiseGap)

\* invert_segments; total_len / sr is exact for a length of whole time units
invert_segments(total_len, segments) ==
    LET total_sec == total_len \div SamplesPerUnit
        inv       == InvertFrom(SortedByStart(segments), 0, total_sec)
    IN  SelectSeq(inv, LAMBDA g : g[2] - g[1] >= MinNoiseGap)

\* speech_sig and noise_sig of analyze_mic_quality, and the intervals the
\* noise is taken from
MicSignals(audio, speech_segs) ==
    LET speech_size == ExtractedSize(audio.n, speech_segs)
        nonspeech_segs == invert_segments(audio.n, speech_segs)
        noise_size  == ExtractedSize(audio.n, nonspeech_segs)
    IN  [ nonspeech_segs |-> nonspeech_segs,
          speech_sig |-> IF speech_size = 0 THEN EmptySig
                         ELSE [ size |-> speech_size, rms |-> audio.speech.rms,
                                peak |-> audio.speech.peak,
                                clip |-> audio.speech.clip ],
          noise_sig  |-> IF noise_size = 0 THEN EmptySig
                         ELSE [ size |-> noise_size, rms |-> audio.noise_rms,
                                peak |-> audio.noise_rms, clip |-> 0 ] ]

-----------------------------------------------------------------------------
(* One run: the recording-quality stage, then the checklist stage *)

Start(inputs) ==
    /\ pc = "mic"
    /\ inp \in inputs
    /\ mic_quality = <<>>
    /\ audio_checklist = <<>>
    /\ loc = <<>>
    /\ calls = <<>>
    /\ report = <<>>
    /\ frontend_result = <<>>

AnalyzeMicQuality ==
    /\ pc = "mic"
    /\ mic_quality' = analyze_mic_quality(inp.speech_sig, inp.noise_sig)
    /\ pc' = "checklist"
    /\ UNCHANGED <<inp, audio_checklist, loc, calls, report, frontend_result>>

BuildAudioChecklist ==
    /\ pc = "checklist"
    /\ audio_checklist' = build_audio_checklist(inp, mic_quality)
    /\ pc' = "done"
    /\ UNCHANGED <<inp, mic_quality, loc, calls, report, frontend_result>>

Next == AnalyzeMicQuality \/ BuildAudioChecklist

Init         == Start(RunInputs)
InitPace     == Start(PaceInputs)
InitPauses   == Start(PausesInputs)
InitWords    == Start(WordsInputs)
InitCoverage == Start(CoverageInputs)
InitTime     == Start(TimeInputs)
InitRatio    == Start(RatioInputs)
InitMic      == Start(MicInputs)

Spec         == Init /\ [][Next]_vars
SpecPace     == InitPace /\ [][Next]_vars
SpecPauses   == InitPauses /\ [][Next]_vars
SpecWords    == InitWords /\ [][Next]_vars
SpecCoverage == InitCoverage /\ [][Next]_vars
SpecTime     == InitTime /\ [][Next]_vars
SpecRatio    == InitRatio /\ [][Next]_vars
SpecMic      == InitMic /\ [][Next]_vars

Done == pc = "done"

-----------------------------------------------------------------------------
(* analyze: one request from the transcription to the returned report.     *)
(* inp is the request and what its environment answers: the recogniser     *)
(* (asr), the access token and the voice activity detector (vad), the      *)
(* recording (audio), the script and the sentence encoder (embedding).     *)
(* loc holds the local variables of analyze, calls counts the uses of the  *)
(* three external models, report is the returned dictionary.               *)

NoCalls == [transcribe |-> 0, vad_load |-> 0, vad |-> 0, embed |-> 0, encode |-> 0]

StartAnalyze(requests) ==
    /\ pc = "transcribe"
    /\ inp \in requests
    /\ mic_quality = <<>>
    /\ audio_checklist = <<>>
    /\ loc = <<>>
    /\ calls = NoCalls
    /\ report = <<>>
    /\ frontend_result = <<>>

Raise == pc' = "raised" /\ UNCHANGED <<loc, mic_quality, audio_checklist, report,
                                       frontend_result>>

\* TranscribeWhisper that calls the recogniser again after a failure
TranscribeWhisperRetry ==
    /\ pc = "transcribe"
    /\ calls' = [calls EXCEPT !.transcribe = @ + 1]
    /\ IF ~inp.asr.ok
       THEN IF calls.transcribe = 0
            THEN UNCHANGED <<pc, loc, mic_quality, audio_checklist, report,
                             frontend_result>>
            ELSE Raise
       ELSE LET t == transcribe_whisper(inp.asr.segments)
            IN  /\ loc' = t @@ SpeechWindow(t.words)
                /\ pc' = "vad"
                /\ UNCHANGED <<mic_quality, audio_checklist, report,
                               frontend_result>>
    /\ UNCHANGED inp

TranscribeWhisper ==
    /\ pc = "transcribe"
    /\ calls' = [calls EXCEPT !.transcribe = @ + 1]
    /\ IF ~inp.asr.ok THEN Raise
       ELSE LET t == transcribe_whisper(inp.asr.segments)
            IN  /\ loc' = t @@ SpeechWindow(t.words)
                /\ pc' = "vad"
                /\ UNCHANGED <<mic_quality, audio_checklist, report,
                               frontend_result>>
    /\ UNCHANGED inp

\* build_pyannote_vad: inp.loader lists what Pipeline.from_pretrained does
\* when it is called with token= and, after a TypeError, with
\* use_auth_token=
BuildPyannoteVad ==
    /\ pc = "vad"
    /\ IF ~inp.hf_token THEN Raise /\ UNCHANGED calls
       ELSE LET attempts == IF inp.loader[1] = "TypeError" THEN 2 ELSE 1
            IN  /\ calls' = [calls EXCEPT !.vad_load = @ + attempts]
                /\ IF inp.loader[attempts] = "ok"
                   THEN /\ pc' = "segments"
                        /\ UNCHANGED <<loc, mic_quality, audio_checklist, report,
                                       frontend_result>>
                   ELSE Raise
    /\ UNCHANGED inp

ComputeSpeechSegments ==
    /\ pc = "segments"
    /\ calls' = [calls EXCEPT !.vad = @ + 1]
    /\ IF ~inp.vad.ok THEN Raise
       ELSE /\ loc' = loc @@ [speech_segs |-> compute_speech_segments(inp.vad.timeline)]
            /\ pc' = "pauses"
            /\ UNCHANGED <<mic_quality, audio_checklist, report,
                           frontend_result>>
    /\ UNCHANGED inp

\* LongPausesAndRates that takes both rates over the overall time
LongPausesAndRatesOverall ==
    /\ pc = "pauses"
    /\ LET p == long_pauses_from_segments(loc.speech_segs, inp.pause_threshold,
                                          loc.total_dur)
           n_words == word_count(loc.transcript)
       IN  loc' = loc @@ p @@
                  [ n_words     |-> n_words,
                    spoken_wpm  |-> WpmOver(n_words, p.overall_time),
                    overall_wpm |-> WpmOver(n_words, p.overall_time) ]
    /\ pc' = "patterns"
    /\ UNCHANGED <<inp, mic_quality, audio_checklist, calls, report,
                   frontend_result>>

LongPausesAndRates ==
    /\ pc = "pauses"
    /\ LET p == long_pauses_from_segments(loc.speech_segs, inp.pause_threshold,
                                          loc.total_dur)
           n_words == word_count(loc.transcript)
       IN  loc' = loc @@ p @@
                  [ n_words     |-> n_words,
                    spoken_wpm  |-> WpmOver(n_words, p.spoken_time),
                    overall_wpm |-> WpmOver(n_words, p.overall_time) ]
    /\ pc' = "patterns"
    /\ UNCHANGED <<inp, mic_quality, audio_checklist, calls, report,
                   frontend_result>>

FindPatterns ==
    /\ pc = "patterns"
    /\ LET f == find_patterns_with_timestamps(loc.words, FILLERS_PATTERNS)
           h == find_patterns_with_timestamps(loc.words, HEDGES_PATTERNS)
       IN  IF f.raised \/ h.raised THEN Raise
           ELSE /\ loc' = loc @@ [ fillers |-> f.results, fillers_total |-> f.total,
                                   hedges |-> h.results, hedges_total |-> h.total ]
                /\ pc' = "coverage"
                /\ UNCHANGED <<mic_quality, audio_checklist, report,
                               frontend_result>>
    /\ UNCHANGED <<inp, calls>>

ComputeCoverage ==
    /\ pc = "coverage"
    /\ LET seg_texts == group_segment_texts(loc.segments, Sec(12), 60)
           c == IF inp.script_text # <<>>
                THEN compute_coverage(inp.script_text, seg_texts,
                                      COVERAGE_THRESHOLD, inp.embedding)
                ELSE [ raised |-> FALSE, embed_calls |-> 0, encode_calls |-> 0,
                       result |-> None ]
       IN  /\ calls' = [calls EXCEPT !.embed = @ + c.embed_calls,
                                     !.encode = @ + c.encode_calls]
           /\ IF c.raised THEN Raise
              ELSE /\ loc' = loc @@ [seg_texts |-> seg_texts, coverage |-> c.result]
                   /\ pc' = "mic_quality"
                   /\ UNCHANGED <<mic_quality, audio_checklist, report,
                                  frontend_result>>
    /\ UNCHANGED inp

MicQuality ==
    /\ pc = "mic_quality"
    /\ LET sigs == MicSignals(inp.audio, loc.speech_segs)
       IN  /\ mic_quality' = analyze_mic_quality(sigs.speech_sig, sigs.noise_sig)
           /\ loc' = loc @@ sigs
    /\ pc' = "build_checklist"
    /\ UNCHANGED <<inp, audio_checklist, calls, report, frontend_result>>

\* overall_time or total_dur
DurationTotal(l) == IF l.overall_time # 0 THEN l.overall_time ELSE l.total_dur

\* the keyword arguments of the call of build_audio_checklist
ChecklistArgs(l, planned_duration_sec) ==
    [ wpm_spoken           |-> l.spoken_wpm,
      long_pauses          |-> l.pauses,
      duration_total       |-> DurationTotal(l),
      duration_spoken      |-> l.spoken_time,
      words_total          |-> l.n_words,
      filler_count_total   |-> l.fillers_total,
      hedge_count_total    |-> l.hedges_total,
      coverage             |-> l.coverage,
      planned_duration_sec |-> Some(planned_duration_sec),
      speech_window_sec    |-> l.speech_window_sec ]

Checklist ==
    /\ pc = "build_checklist"
    /\ audio_checklist' =
         build_audio_checklist(ChecklistArgs(loc, inp.planned_duration_sec),
                               mic_quality)
    /\ pc' = "return"
    /\ UNCHANGED <<inp, mic_quality, loc, calls, report, frontend_result>>

\* the returned dictionary (without meta and the speech window bounds)
Report(l, checklist) ==
    [ transcript_text     |-> l.transcript,
      duration_sec_total  |-> RoundDiv(DurationTotal(l), 40),
      duration_sec_spoken |-> RoundDiv(l.spoken_time, 40),
      speech_window_sec   |-> RoundDiv(l.speech_window_sec, 40),
      words_total         |-> l.n_words,
      wpm_overall         |-> l.overall_wpm,
      wpm_spoken          |-> l.spoken_wpm,
      speech_segments     |-> [i \in DOMAIN l.speech_segs |->
                                 [ start |-> Round3(l.speech_segs[i][1]),
                                   end   |-> Round3(l.speech_segs[i][2]) ]],
      long_pauses         |-> l.pauses,
      filler_words        |-> l.fillers,
      filler_count_total  |-> l.fillers_total,
      hedge_phrases       |-> l.hedges,
      hedge_count_total   |-> l.hedges_total,
      script_alignment    |-> l.coverage,
      audio_checklist     |-> checklist ]

Return ==
    /\ pc = "return"
    /\ report' = Report(loc, audio_checklist)
    /\ pc' = "returned"
    /\ UNCHANGED <<inp, mic_quality, audio_checklist, loc, calls, frontend_result>>

NextAnalyze ==
    \/ TranscribeWhisper
    \/ BuildPyannoteVad
    \/ ComputeSpeechSegments
    \/ LongPausesAndRates
    \/ FindPatterns
    \/ ComputeCoverage
    \/ MicQuality
    \/ Checklist
    \/ Return

Returned == pc = "returned"
Raised   == pc = "raised"

-----------------------------------------------------------------------------
(* Requests.  Every specification of analyze draws one part of the request *)
(* from a domain and keeps the rest at a nominal value.                    *)

MaxSegs == 3

\* word number i of a transcription: one second apart, times off the
\* millisecond grid
WordAt(raw, i) ==
    [word |-> raw, start |-> Sec(i) - Sec(1) + 1, end |-> Sec(i) - 1001]

\* a recogniser segment over the given raw words, from start to end
WhisperSegment(raws, start, end) ==
    [ start |-> start, end |-> end, text |-> JoinSp(raws),
      words |-> [i \in DOMAIN raws |-> WordAt(raws[i], i)] ]

Heard(segments) == [ok |-> TRUE, segments |-> segments]
AsrFailure      == [ok |-> FALSE, segments |-> <<>>]

Detected(timeline) == [ok |-> TRUE, timeline |-> timeline]
VadFailure         == [ok |-> FALSE, timeline |-> <<>>]

\* an encoder that answers, and one that fails when it is loaded (k = 0),
\* at its first use (1) or at its second (2)
Encoded(sims)     == [ok |-> TRUE, sims |-> sims, uses |-> 2]
EncoderFailure(k) == [ok |-> FALSE, sims |-> <<>>, uses |-> k]

\* the outcomes of the loads of the detector: the first call, and the call
\* that follows a TypeError
Loaders == { <<"ok">>, <<"error">>, <<"TypeError", "ok">>, <<"TypeError", "error">> }

Recording(dur)  ==
    [ n |-> SamplesPerUnit * dur,
      speech |-> [rms |-> Db(-20), peak |-> Db(-3), clip |-> 0],
      noise_rms |-> Db(-60) ]

NominalWords == << <<"a">>, <<"b">>, <<"a", ",">> >>

NominalRequest ==
    [ asr                  |-> Heard(<<WhisperSegment(NominalWords, 0, Sec(8))>>),
      hf_token             |-> TRUE,
      loader               |-> <<"ok">>,
      vad                  |-> Detected(<< <<1, Sec(3)>>, <<Sec(4), Sec(8) - 1>> >>),
      audio                |-> Recording(Sec(10)),
      script_text          |-> <<>>,
      embedding            |-> Encoded(<<>>),
      pause_threshold      |-> Sec(4),
      planned_duration_sec |-> 0 ]

\* the instants a detected segment starts or ends at: on and off the
\* millisecond grid, 4 s and 4.00025 s apart
SegPoints == {0, Sec(1) + 1, Sec(2), Sec(6), Sec(6) + 1}
SegPairs  == {p \in SegPoints \X SegPoints : p[1] < p[2]}

\* the timelines sorted by start, overlapping ones included
Timelines ==
    {tl \in UNION {[1..k -> SegPairs] : k \in 0..MaxSegs} :
        \A i \in 1..(Len(tl) - 1) : tl[i][1] <= tl[i + 1][1]}

\* thresholds on and off the millisecond grid
PauseThresholds == {Sec(4), Sec(4) + 1}

\* transcriptions that end before, or after, the last detected segment, and
\* the transcription of a recording without speech
ReportedTotals ==
    { Heard(<<>>),
      Heard(<<WhisperSegment(NominalWords, 0, Sec(3))>>),
      Heard(<<WhisperSegment(NominalWords, 0, Sec(8))>>) }

LongPausesRequests ==
    { [NominalRequest EXCEPT !.vad = Detected(tl), !.pause_threshold = thr,
                             !.asr = asr] :
        tl \in Timelines, thr \in PauseThresholds, asr \in ReportedTotals }

InitLongPauses == StartAnalyze(LongPausesRequests)
SpecLongPauses == InitLongPauses /\ [][NextAnalyze]_vars

MaxWordList == 3

\* raw words: the two letters, a capital with punctuation, punctuation
\* alone (an empty token) and a word of two letters
Vocabulary == { <<"a">>, <<"b">>, <<"A", ",">>, <<",">>, <<"a", "b">> }

WordLists == UNION {[1..k -> Vocabulary] : k \in 0..MaxWordList}

PatternsRequests ==
    { [NominalRequest EXCEPT
         !.asr = Heard(IF raws = <<>> THEN <<>>
                       ELSE <<WhisperSegment(raws, 0, Sec(8))>>)] :
        raws \in WordLists }

InitPatterns == StartAnalyze(PatternsRequests)
SpecPatterns == InitPatterns /\ [][NextAnalyze]_vars

MaxScriptUnits   == 2
MaxScenarioUnits == 10

\* a sentence of k words and its closing full stop
Sentence(k) == JoinSp([i \in 1..k |-> <<"a">>]) \o <<".">>

\* the script with one sentence for every word count of the list
ScriptOf(counts) == JoinSp([i \in DOMAIN counts |-> Sentence(counts[i])])

\* sentences too short for a unit (2 words), short units (4) and long (5)
SentenceWords == {2, 4, 5}

Scripts ==
    {ScriptOf(cs) : cs \in UNION {[1..k -> SentenceWords] : k \in 0..MaxScriptUnits}}

\* a later recogniser segment, its words numbered after the first k
LaterSegment(raws, start, end, k) ==
    [ start |-> start, end |-> end, text |-> JoinSp(raws),
      words |-> [i \in DOMAIN raws |-> WordAt(raws[i], k + i)] ]

\* transcriptions that group into no, one and two segment texts
Transcriptions ==
    { Heard(<<>>),
      Heard(<<WhisperSegment(NominalWords, 0, Sec(8))>>),
      Heard(<<WhisperSegment(NominalWords, 0, Sec(8)),
              LaterSegment(NominalWords, Sec(13), Sec(20), 13)>>) }

SegTextsOf(asr) == group_segment_texts(asr.segments, Sec(12), 60)

\* similarities on both sides of the two thresholds
SimValues == {4499, 4500, 6499, 6500}

\* the rows of a similarity matrix over m segment texts: the best value in
\* any column, alone or tied
SimRows(m) ==
    IF m = 1 THEN {<<v>> : v \in SimValues}
    ELSE {<<v, 0>> : v \in SimValues} \cup {<<0, v>> : v \in SimValues}
         \cup {<<v, v>> : v \in SimValues}

\* what the encoder can answer for a script and a transcription: nothing to
\* encode, or a matrix with a row for every unit
Embeddings(script, asr) ==
    LET n == Len(split_script_units(script))
        m == Len(SegTextsOf(asr))
    IN  IF n = 0 \/ m = 0 THEN {Encoded(<<>>)}
        ELSE {Encoded(sims) : sims \in [1..n -> SimRows(m)]}

ScriptRequests ==
    { [NominalRequest EXCEPT !.script_text = x[1], !.asr = x[2],
                             !.embedding = x[3]] :
        x \in UNION {{<<sc, asr, e>> : e \in Embeddings(sc, asr)} :
                        <<sc, asr>> \in Scripts \X Transcriptions} }

\* n units of c words, the last k of them heard at 0.40 and the others at
\* 0.70, against one segment text
ScenarioRequests ==
    { [NominalRequest EXCEPT
         !.script_text = ScriptOf([i \in 1..x[1] |-> x[3]]),
         !.embedding = Encoded([i \in 1..x[1] |->
                                  IF i > x[1] - x[2] THEN <<4000>> ELSE <<7000>>])] :
        x \in {y \in (1..MaxScenarioUnits) \X (0..MaxScenarioUnits) \X {4, 5} :
                 y[2] <= y[1]} }

InitScript == StartAnalyze(ScriptRequests \cup ScenarioRequests)
SpecScript == InitScript /\ [][NextAnalyze]_vars

\* every stage that uses an external model fails or answers, for no script,
\* a script without units and a script with one unit
FailureRequests ==
    { [NominalRequest EXCEPT !.asr = x[1], !.hf_token = x[2], !.vad = x[3],
                             !.embedding = x[4], !.script_text = x[5],
                             !.loader = x[6]] :
        x \in {AsrFailure, Heard(<<>>), NominalRequest.asr}
              \X BOOLEAN
              \X {VadFailure, Detected(<<>>), NominalRequest.vad}
              \X ({EncoderFailure(k) : k \in 0..2} \cup {Encoded(<< <<7000>> >>)})
              \X {<<>>, ScriptOf(<<2>>), ScriptOf(<<5>>)}
              \X Loaders }

InitFailures == StartAnalyze(FailureRequests)
SpecFailures == InitFailures /\ [][NextAnalyze]_vars

\* the default of pause_threshold
LONG_PAUSE_SEC == Sec(4)

\* the instants a detected segment starts or ends at: 4 s, a quarter of a
\* millisecond less or more than 4 s, and 5 s apart
DefaultPoints ==
    {0, Sec(2), Sec(2) + 1, Sec(6), Sec(6) + 1, Sec(7), Sec(11), Sec(12)}

\* the timelines of a detector: chronological, touching or apart
DefaultTimelines ==
    {tl \in UNION {[1..k -> DefaultPoints \X DefaultPoints] : k \in 0..MaxSegs} :
        /\ \A i \in DOMAIN tl : tl[i][1] < tl[i][2]
        /\ \A i \in 1..(Len(tl) - 1) : tl[i][2] <= tl[i + 1][1]}

\* recordings of 12 s, 40 s and two minutes: one pause is then more than
\* 1.5, exactly 1.5 and exactly 0.5 per minute
DefaultTotals == {Sec(12), Sec(40), Sec(120)}

DefaultPauseRequests ==
    { [NominalRequest EXCEPT
         !.vad = Detected(tl),
         !.asr = Heard(<<WhisperSegment(NominalWords, 0, total)>>),
         !.audio = Recording(total),
         !.pause_threshold = LONG_PAUSE_SEC] :
        tl \in DefaultTimelines, total \in DefaultTotals }

InitDefaultPauses == StartAnalyze(DefaultPauseRequests)
SpecDefaultPauses == InitDefaultPauses /\ [][NextAnalyze]_vars

\* group_segment_texts on its own: inp is the list of segments and the two
\* budgets, loc the emitted texts and the windows behind them
GroupSegmentTexts ==
    /\ pc = "group"
    /\ loc' = [ seg_texts |-> group_segment_texts(inp.segments, inp.max_seconds,
                                                  inp.max_words),
                windows   |-> GroupWindows(inp.segments, 1, <<>>, 0,
                                           inp.max_seconds, inp.max_words) ]
    /\ pc' = "grouped"
    /\ UNCHANGED <<inp, mic_quality, audio_checklist, calls, report,
                   frontend_result>>

Grouped == pc = "grouped"

\* the instants a segment of the recogniser starts or ends at
GroupPoints == {Sec(k) : k \in 0..(MaxSegs + 1)}

\* the texts of a segment: none, and one to three words after the leading
\* blank the recogniser writes
GroupTexts ==
    { <<>>, <<" ", "a">>, <<" ", "a", " ", "b">>, <<" ", "a", " ", "b", " ", "a">> }

\* segments in chronological order, touching or apart
GroupSegments ==
    {segs \in UNION {[1..k -> [start : GroupPoints, end : GroupPoints,
                               text : GroupTexts]] : k \in 0..MaxSegs} :
        /\ \A i \in DOMAIN segs : segs[i].start < segs[i].end
        /\ \A i \in 1..(Len(segs) - 1) : segs[i].end <= segs[i + 1].start}

\* budgets a segment can exceed alone, and the budgets of analyze
GroupBudgets == ({Sec(1), Sec(2)} \X {2, 3}) \cup {<<Sec(12), 60>>}

GroupInputs ==
    { [segments |-> segs, max_seconds |-> b[1], max_words |-> b[2]] :
        segs \in GroupSegments, b \in GroupBudgets }

InitGroups ==
    /\ pc = "group"
    /\ inp \in GroupInputs
    /\ mic_quality = <<>>
    /\ audio_checklist = <<>>
    /\ loc = <<>>
    /\ calls = <<>>
    /\ report = <<>>
    /\ frontend_result = <<>>

SpecGroups == InitGroups /\ [][GroupSegmentTexts]_vars

\* the instants a detected segment starts or ends at, with gaps of just
\* under 0.15 s, of 0.15 s and of more between them
SignalPoints == {0, MinNoiseGap - 1, MinNoiseGap, Sec(1), Sec(1) + MinNoiseGap, Sec(2)}
SignalPairs  == {p \in SignalPoints \X SignalPoints : p[1] < p[2]}

SignalTimelines ==
    {tl \in UNION {[1..k -> SignalPairs] : k \in 0..MaxSegs} :
        \A i \in 1..(Len(tl) - 1) : tl[i][1] <= tl[i + 1][1]}

\* recordings without a sample, ending before, inside and after the
\* detected speech
SignalLengths == {0, MinNoiseGap, Sec(1), Sec(1) + MinNoiseGap - 1, Sec(2), Sec(3)}

SignalRequests ==
    { [NominalRequest EXCEPT !.vad = Detected(tl), !.audio = Recording(dur)] :
        tl \in SignalTimelines, dur \in SignalLengths }

InitSignals == StartAnalyze(SignalRequests)
SpecSignals == InitSignals /\ [][NextAnalyze]_vars

-----------------------------------------------------------------------------
(* convert_to_frontend_format.  Scores are in hundredths (1.0 is 100); the *)
(* function reads the displayed values of the checklist items: pace in     *)
(* tenths of a word per minute, rates per 100 words and per minute and     *)
(* seconds in hundredths, ratios in thousandths, coverage in tenths of a   *)
(* percent, levels in tenths of a decibel.  The labels, the advice texts   *)
(* and the recommendations made of them are not part of the model; a       *)
(* feedback text is named by its tone and a strength or an area for        *)
(* improvement by the key of its item.                                     *)

ScoreGood    == 100
ScoreWarning == 75
ScoreError   == 40

calculate_pace_score(pace_value) ==
    IF 1100 <= pace_value /\ pace_value <= 1400 THEN ScoreGood
    ELSE IF (900 <= pace_value /\ pace_value < 1100)
            \/ (1400 < pace_value /\ pace_value <= 1600) THEN ScoreWarning
    ELSE ScoreError

calculate_fillers_score(fillers_per_100) ==
    IF fillers_per_100 <= 100 THEN ScoreGood
    ELSE IF fillers_per_100 <= 300 THEN ScoreWarning
    ELSE ScoreError

calculate_hedges_score(hedges_per_100) ==
    IF hedges_per_100 <= 50 THEN ScoreGood
    ELSE IF hedges_per_100 <= 150 THEN ScoreWarning
    ELSE ScoreError

calculate_pauses_score(count, per_min, max_sec) ==
    IF per_min <= 50 /\ max_sec <= 300 THEN ScoreGood
    ELSE LET too_many == per_min > 150
             too_long == max_sec > 400
         IN  IF too_many \/ too_long THEN ScoreError ELSE ScoreWarning

calculate_coverage_score(coverage_value) ==
    IF IsNone(coverage_value) THEN None
    ELSE IF Val(coverage_value) >= Pct(90) THEN Some(ScoreGood)
    ELSE IF Val(coverage_value) >= Pct(75) THEN Some(ScoreWarning)
    ELSE Some(ScoreError)

calculate_spoken_ratio_score(ratio) ==
    IF 700 <= ratio /\ ratio <= 900 THEN ScoreGood
    ELSE IF (600 <= ratio /\ ratio < 700) \/ (900 < ratio /\ ratio <= 950)
         THEN ScoreWarning
    ELSE ScoreError

calculate_timing_score(ratio) ==
    IF IsNone(ratio) THEN None
    ELSE IF 950 <= Val(ratio) /\ Val(ratio) <= 1050 THEN Some(ScoreGood)
    ELSE IF (900 <= Val(ratio) /\ Val(ratio) < 950)
            \/ (1050 < Val(ratio) /\ Val(ratio) <= 1100) THEN Some(ScoreWarning)
    ELSE Some(ScoreError)

\* sum(scores) / len(scores) of the scores that are not None, as a fraction;
\* None for no score
Average(scores) ==
    LET present == SelectSeq(scores, LAMBDA x : ~IsNone(x))
        RECURSIVE Sum(_)
        Sum(xs) == IF xs = <<>> THEN Q(0, 1)
                   ELSE LET h == Val(Head(xs))
                            t == Sum(Tail(xs))
                        IN  Q(h.n * t.d + t.n * h.d, h.d * t.d)
    IN  IF present = <<>> THEN None
        ELSE LET total == Sum(present)
             IN  Some(Q(total.n, total.d * Len(present)))

calculate_mic_score(rms_dbfs_value, snr_db) ==
    LET loudness_score ==
          IF IsNone(rms_dbfs_value) THEN None
          ELSE IF -230 <= Val(rms_dbfs_value) /\ Val(rms_dbfs_value) <= -140
               THEN Some(Q(ScoreGood, 1))
          ELSE IF (-280 <= Val(rms_dbfs_value) /\ Val(rms_dbfs_value) < -230)
                  \/ (-140 < Val(rms_dbfs_value) /\ Val(rms_dbfs_value) <= -120)
               THEN Some(Q(ScoreWarning, 1))
          ELSE Some(Q(ScoreError, 1))
        noise_score ==
          IF IsNone(snr_db) THEN None
          ELSE IF Val(snr_db) >= 200 THEN Some(Q(ScoreGood, 1))
          ELSE IF 120 <= Val(snr_db) /\ Val(snr_db) < 200 THEN Some(Q(ScoreWarning, 1))
          ELSE Some(Q(ScoreError, 1))
    IN  Average(<<loudness_score, noise_score>>)

\* round(avg, 2) of an average of scores.  The doubles of 0.75 and 0.4 add to
\* a value just under 1.15, so their mean rounds to 0.57; every other mean of
\* scores rounds as its exact value does.
RoundScore(avg) ==
    IF avg.n * 2 = 115 * avg.d THEN 57 ELSE RoundQ(avg, 1)

Fraction(score) == IF IsNone(score) THEN None ELSE Some(Q(Val(score), 1))

StatusKeys ==
    << "pace", "pauses", "fillers", "hedges", "coverage", "time_use",
       "spoken_ratio", "mic_loudness", "mic_noise" >>

\* sum(1 for key in checklist if checklist[key].get("status") == status)
StatusCount(checklist, status) ==
    Cardinality({key \in DOMAIN checklist : checklist[key].status = status})

\* convert_to_frontend_format that takes the warning rule before the error
\* rule
Feedback_warning_first(checklist) ==
    IF StatusCount(checklist, "warning") > 3 THEN "moderate"
    ELSE IF StatusCount(checklist, "error") > 2 THEN "critical"
    ELSE "positive"

Feedback(checklist) ==
    IF StatusCount(checklist, "error") > 2 THEN "critical"
    ELSE IF StatusCount(checklist, "warning") > 3 THEN "moderate"
    ELSE "positive"

\* the strengths list with every item that is not graded warning or error
Strengths_not_bad(checklist) ==
    SelectSeq(StatusKeys,
              LAMBDA key : checklist[key].status \notin {"warning", "error"})

Strengths(checklist) ==
    SelectSeq(StatusKeys, LAMBDA key : checklist[key].status = "good")

AreasForImprovement(checklist) ==
    SelectSeq(StatusKeys,
              LAMBDA key : checklist[key].status \in {"warning", "error"})

convert_to_frontend_format(analysis_result) ==
    LET checklist    == analysis_result.audio_checklist
        pace_info    == checklist.pace
        fillers_info == checklist.fillers
        hedges_info  == checklist.hedges
        pace_score    == calculate_pace_score(pace_info.value)
        fillers_score == calculate_fillers_score(fillers_info.per_100_words)
        hedges_score  == calculate_hedges_score(hedges_info.per_100_words)
        speech_group ==
          [ value   |-> RoundScore(Q(pace_score + fillers_score + hedges_score, 3)),
            metrics |-> << pace_info.value, fillers_info.per_100_words,
                           hedges_info.per_100_words >>,
            diagnostics |-> << pace_info.substatus, fillers_info.substatus,
                               hedges_info.substatus >> ]
        pauses_info       == checklist.pauses
        coverage_info     == checklist.coverage
        spoken_ratio_info == checklist.spoken_ratio
        pauses_score == calculate_pauses_score(pauses_info.count, pauses_info.per_min,
                                               pauses_info.max_sec)
        coverage_score     == calculate_coverage_score(coverage_info.value)
        spoken_ratio_score == calculate_spoken_ratio_score(spoken_ratio_info.value)
        delivery_avg == Average(<< Some(Q(pauses_score, 1)), Fraction(coverage_score),
                                   Some(Q(spoken_ratio_score, 1)) >>)
        delivery_group ==
          [ value   |-> IF IsNone(delivery_avg) THEN 60
                        ELSE RoundScore(Val(delivery_avg)),
            metrics |-> << pauses_info.count,
                           IF IsNone(coverage_info.value) THEN 0
                           ELSE Val(coverage_info.value),
                           spoken_ratio_info.value >>,
            diagnostics |-> << pauses_info.substatus, coverage_info.substatus,
                               spoken_ratio_info.substatus >> ]
        mic_loudness_info == checklist.mic_loudness
        mic_noise_info    == checklist.mic_noise
        time_info         == checklist.time_use
        mic_score    == calculate_mic_score(mic_loudness_info.speech_rms_dbfs,
                                            mic_noise_info.snr_db)
        timing_score == calculate_timing_score(time_info.ratio)
        tech_avg     == Average(<<mic_score, Fraction(timing_score)>>)
        technical_group ==
          [ value   |-> IF IsNone(tech_avg) THEN 60 ELSE RoundScore(Val(tech_avg)),
            metrics |-> << RoundDiv(analysis_result.duration_sec_total, 600),
                           mic_loudness_info.speech_rms_dbfs, mic_noise_info.snr_db >>,
            diagnostics |-> << mic_loudness_info.substatus, mic_noise_info.substatus,
                               time_info.substatus >> ]
    IN  [ groups   |-> <<speech_group, delivery_group, technical_group>>,
          feedback |-> Feedback(checklist),
          strengths |-> Strengths(checklist),
          areas_for_improvement |-> AreasForImprovement(checklist) ]

\* analyze_file_frontend_format after analyze has returned: the conversion of
\* the returned analysis
ConvertToFrontendFormat ==
    /\ pc = "done"
    /\ frontend_result' =
         convert_to_frontend_format(
           [ audio_checklist    |-> audio_checklist,
             duration_sec_total |-> RoundDiv(inp.duration_total, 40) ])
    /\ pc' = "converted"
    /\ UNCHANGED <<inp, mic_quality, audio_checklist, loc, calls, report>>

NextFrontend == AnalyzeMicQuality \/ BuildAudioChecklist \/ ConvertToFrontendFormat

Converted == pc = "converted"

\* analyses with every item at each of its grades: three rates, no pause, a
\* middling and a long one, three shares of speech, filler and hedge rates
\* at 100 and at 299 words, four coverages, four plans, five speech levels
\* and four noise levels
FrontendDomain ==
    [ wpm_spoken           : {0, Wpm(80), Wpm(100), Wpm(125)},
      long_pauses          : {<<>>, <<[dur |-> Sec(3) + 2000]>>, <<[dur |-> Sec(5)]>>},
      duration_total       : {Sec(60)},
      duration_spoken      : {0, Sec(30), Sec(39), Sec(48)},
      words_total          : {100, 299},
      filler_count_total   : {0, 2, 3, 4},
      hedge_count_total    : {0, 2},
      coverage             : {None, Cov(Some(Pct(95)), 0), Cov(Some(Pct(80)), 1),
                              Cov(Some(Pct(50)), 2)},
      planned_duration_sec : {Some(0), Some(Sec(55)), Some(Sec(60)), Some(Sec(100))},
      speech_window_sec    : {Sec(55)},
      speech_sig           : {EmptySig, Sig(Db(-18), Db(-6), 0), Sig(Db(-25), Db(-6), 0),
                              Sig(Db(-13), Db(-6), 0), Sig(Db(-18), 0, 500)},
      noise_sig            : {EmptySig, Sig(Db(-50), Db(-50), 0),
                              Sig(Db(-33), Db(-33), 0), Sig(Db(-25), Db(-25), 0)} ]

\* without detected speech there is no rate, no pause and no speech signal
FrontendCoherent(a) ==
    /\ (a.wpm_spoken = 0) <=> (a.duration_spoken = 0)
    /\ (a.speech_sig = EmptySig) <=> (a.duration_spoken = 0)
    /\ a.duration_spoken = 0 => a.long_pauses = <<>>
    /\ (a.filler_count_total = 3) <=> (a.words_total = 299)

FrontendInputs == {a \in FrontendDomain : FrontendCoherent(a)}

InitFrontend == Start(FrontendInputs)
SpecFrontend == InitFrontend /\ [][NextFrontend]_vars

-----------------------------------------------------------------------------
(* Properties of the pace item *)

Grade(item) == <<item.status, item.substatus>>

\* C1: for every spoken rate p the pace item is good/ok iff 110 <= p <= 140,
\* warning/too_slow iff 90 <= p < 110, warning/too_fast iff 140 < p <= 160,
\* error/too_slow iff p < 90 and error/too_fast iff p > 160; p = 125 is good,
\* p = 141 and p = 150 are warning/too_fast, p = 89 is error/too_slow, and
\* exactly one of the five grades applies.
C1_PaceTiers ==
    Done =>
      LET p == inp.wpm_spoken
          g == Grade(audio_checklist.pace)
      IN  /\ (g = <<"good", "ok">>) <=> (Wpm(110) <= p /\ p <= Wpm(140))
          /\ (g = <<"warning", "too_slow">>) <=> (Wpm(90) <= p /\ p < Wpm(110))
          /\ (g = <<"warning", "too_fast">>) <=> (Wpm(140) < p /\ p <= Wpm(160))
          /\ (g = <<"error", "too_slow">>) <=> (p < Wpm(90))
          /\ (g = <<"error", "too_fast">>) <=> (p > Wpm(160))
          /\ g \in { <<"good", "ok">>, <<"warning", "too_slow">>,
                     <<"warning", "too_fast">>, <<"error", "too_slow">>,
                     <<"error", "too_fast">> }
          /\ (p = Wpm(125)) => (g = <<"good", "ok">>)
          /\ (p \in {Wpm(141), Wpm(150)}) => (g = <<"warning", "too_fast">>)
          /\ (p = Wpm(89)) => (g = <<"error", "too_slow">>)

\* a run graded 141 wpm, one word per minute above the good range
C1_Witness ==
    /\ Done
    /\ inp.wpm_spoken = Wpm(141)
    /\ Grade(audio_checklist.pace) = <<"warning", "too_fast">>

-----------------------------------------------------------------------------
(* Properties of the pauses item *)

\* the longest pause of the list, 0 when there is none
Longest(ps) ==
    IF ps = <<>> THEN 0
    ELSE CHOOSE m \in {ps[i].dur : i \in DOMAIN ps} :
            \A i \in DOMAIN ps : ps[i].dur <= m

\* pauses per minute > num / den, the rate taken as 0 when the total is 0
RateAbove(ps, total, num, den) ==
    total > 0 /\ Len(ps) * 240000 * den > num * total

\* C2: the pauses item is good if and only if the pause rate is <= 0.5 per
\* minute and the longest pause is <= 3 s (rate 0 when the total duration is
\* 0, longest 0 when there are no pauses).
C2_PausesGoodIff ==
    Done =>
      LET ps == inp.long_pauses
          t  == inp.duration_total
      IN  (audio_checklist.pauses.status = "good")
            <=> (~RateAbove(ps, t, 1, 2) /\ Longest(ps) <= Sec(3))

\* one pause of exactly 3 s in exactly two minutes: both targets met on
\* their boundary
C2_Witness ==
    /\ Done
    /\ Len(inp.long_pauses) = 1
    /\ inp.long_pauses[1].dur = Sec(3)
    /\ inp.duration_total = Sec(120)
    /\ audio_checklist.pauses.status = "good"

\* C3: whenever both targets fail at once (rate > 0.5 per minute and longest
\* pause > 3 s) the substatus of the pauses item is many_and_long.
C3_CombinedWhenBothFail ==
    Done =>
      LET ps == inp.long_pauses
          t  == inp.duration_total
      IN  (RateAbove(ps, t, 1, 2) /\ Longest(ps) > Sec(3))
            => audio_checklist.pauses.substatus = "many_and_long"

-----------------------------------------------------------------------------
(* Properties of the fillers and hedges items *)

\* C4: fillers are graded on count per 100 words as good iff rate <= 1.0,
\* warning iff 1.0 < rate <= 3.0, error iff rate > 3.0, and hedges as good
\* iff rate <= 0.5, warning iff 0.5 < rate <= 1.5, error iff rate > 1.5; with
\* zero words the rate is the count over one word (no division by zero) and
\* zero counts grade good.
C4_WordRates ==
    Done =>
      LET w  == IF inp.words_total = 0 THEN 1 ELSE inp.words_total
          f  == inp.filler_count_total
          h  == inp.hedge_count_total
          fs == audio_checklist.fillers.status
          hs == audio_checklist.hedges.status
      IN  /\ (fs = "good")    <=> (100 * f <= w)
          /\ (fs = "warning") <=> (w < 100 * f /\ 100 * f <= 3 * w)
          /\ (fs = "error")   <=> (100 * f > 3 * w)
          /\ (hs = "good")    <=> (200 * h <= w)
          /\ (hs = "warning") <=> (w < 200 * h /\ 200 * h <= 3 * w)
          /\ (hs = "error")   <=> (200 * h > 3 * w)
          /\ (inp.words_total = 0 /\ f = 0) => fs = "good"
          /\ (inp.words_total = 0 /\ h = 0) => hs = "good"

\* 200 words with 2 fillers (1.0 per 100, good) and 3 hedges (1.5 per 100,
\* warning): both on a boundary
C4_Witness ==
    /\ Done
    /\ inp.words_total = 200
    /\ inp.filler_count_total = 2
    /\ inp.hedge_count_total = 3
    /\ audio_checklist.fillers.status = "good"
    /\ audio_checklist.hedges.status = "warning"

-----------------------------------------------------------------------------
(* Properties of the coverage item *)

CovAbsent(c) == IsNone(c) \/ IsNone(Val(c).coverage)

\* the coverage tiers on the coverage percentage, when there is one
CoverageTiers ==
    LET c  == inp.coverage
        st == audio_checklist.coverage.status
    IN  ~CovAbsent(c) =>
          LET v == Val(Val(c).coverage)
          IN  /\ (st = "good")    <=> (v >= Pct(90))
              /\ (st = "warning") <=> (Pct(75) <= v /\ v < Pct(90))
              /\ (st = "error")   <=> (v < Pct(75))

\* C5 as stated: the coverage item is good iff coverage% >= 90, warning iff
\* 75 <= coverage% < 90, error iff coverage% < 75, and has status
\* not_applicable when the coverage result is null.
C5_StatusNotApplicable ==
    Done =>
      /\ CoverageTiers
      /\ IsNone(inp.coverage) => audio_checklist.coverage.status = "not_applicable"

\* C5 as amended: the same tiers, and when the coverage result is null (or
\* carries a null coverage) the item has a null status, a null substatus and a
\* null value: never a zero score, never an error status.
C5_CoverageTiers ==
    Done =>
      /\ CoverageTiers
      /\ CovAbsent(inp.coverage) =>
            /\ audio_checklist.coverage.status = NoneStr
            /\ audio_checklist.coverage.substatus = NoneStr
            /\ audio_checklist.coverage.value = None

\* a run without a script: the coverage item is there with a null status
C5_Witness ==
    /\ Done
    /\ IsNone(inp.coverage)
    /\ audio_checklist.coverage.status = NoneStr
    /\ audio_checklist.coverage.value = None

-----------------------------------------------------------------------------
(* Properties of the time_use item *)

\* C6: with ratio = speech window / planned duration the time_use item is
\* good/on_time iff 0.95 <= ratio <= 1.05 (planned 120 s, window 126 s is
\* good), warning/under_time iff 0.90 <= ratio < 0.95, warning/over_time iff
\* 1.05 < ratio <= 1.10, error/under_time iff ratio < 0.90, error/over_time
\* iff ratio > 1.10; when the planned duration is absent or not > 0, or the
\* speech window is 0, the item has status "na" and null ratio and diff.
C6_TimeUse ==
    Done =>
      LET p == inp.planned_duration_sec
          w == inp.speech_window_sec
          t == audio_checklist.time_use
          g == Grade(t)
      IN  IF ~IsNone(p) /\ Val(p) > 0 /\ w > 0
          THEN LET P == Val(p)
               IN  /\ (g = <<"good", "on_time">>)
                        <=> (95 * P <= 100 * w /\ 100 * w <= 105 * P)
                   /\ (g = <<"warning", "under_time">>)
                        <=> (90 * P <= 100 * w /\ 100 * w < 95 * P)
                   /\ (g = <<"warning", "over_time">>)
                        <=> (105 * P < 100 * w /\ 100 * w <= 110 * P)
                   /\ (g = <<"error", "under_time">>) <=> (100 * w < 90 * P)
                   /\ (g = <<"error", "over_time">>) <=> (100 * w > 110 * P)
                   /\ ~IsNone(t.ratio)
                   /\ (P = Sec(120) /\ w = Sec(126)) => t.status = "good"
          ELSE /\ t.status = "na"
               /\ t.ratio = None
               /\ t.diff_sec = None

\* planned 120 s, spoken window 126 s: ratio 1.05, graded good
C6_Witness ==
    /\ Done
    /\ inp.planned_duration_sec = Some(Sec(120))
    /\ inp.speech_window_sec = Sec(126)
    /\ Grade(audio_checklist.time_use) = <<"good", "on_time">>
    /\ audio_checklist.time_use.ratio = Some(1050)

-----------------------------------------------------------------------------
(* Properties of the spoken_ratio item *)

\* C7: with r = duration_spoken / duration_total (0 when the total is 0) the
\* spoken_ratio item is good iff 0.70 <= r <= 0.90, warning/too_low iff
\* 0.60 <= r < 0.70, warning/too_high iff 0.90 < r <= 0.95, error/too_low iff
\* r < 0.60 and error/too_high iff r > 0.95; a zero total is graded like
\* r = 0.
C7_SpokenRatio ==
    Done =>
      LET s == IF inp.duration_total = 0 THEN 0 ELSE inp.duration_spoken
          t == IF inp.duration_total = 0 THEN 1 ELSE inp.duration_total
          g == Grade(audio_checklist.spoken_ratio)
      IN  /\ (g = <<"good", "ok">>) <=> (70 * t <= 100 * s /\ 100 * s <= 90 * t)
          /\ (g = <<"warning", "too_low">>)
               <=> (60 * t <= 100 * s /\ 100 * s < 70 * t)
          /\ (g = <<"warning", "too_high">>)
               <=> (90 * t < 100 * s /\ 100 * s <= 95 * t)
          /\ (g = <<"error", "too_low">>) <=> (100 * s < 60 * t)
          /\ (g = <<"error", "too_high">>) <=> (100 * s > 95 * t)
          /\ audio_checklist.spoken_ratio.status \in {"good", "warning", "error"}

\* a zero total duration: the ratio is 0 and the item is error/too_low
C7_Witness ==
    /\ Done
    /\ inp.duration_total = 0
    /\ audio_checklist.spoken_ratio.value = 0
    /\ Grade(audio_checklist.spoken_ratio) = <<"error", "too_low">>

-----------------------------------------------------------------------------
(* Properties of the recording-quality items *)

\* C8: when speech RMS is measurable, mic_loudness is error/clipping whenever
\* the clipping ratio is >= 0.005 or the speech peak is > -1 dBFS, whatever
\* the RMS; otherwise it is warning if RMS > -12 dBFS or -28 <= RMS < -23,
\* good if -23 <= RMS <= -14, and error if RMS < -28.
C8_MicLoudness ==
    Done =>
      LET x   == inp.speech_sig
          rms == x.rms
          it  == audio_checklist.mic_loudness
      IN  x.size > 0 =>
            IF x.clip >= 500 \/ x.peak > Db(-1)
            THEN Grade(it) = <<"error", "clipping">>
            ELSE /\ rms > Db(-12) => it.status = "warning"
                 /\ (Db(-28) <= rms /\ rms < Db(-23)) => it.status = "warning"
                 /\ (Db(-23) <= rms /\ rms <= Db(-14)) => it.status = "good"
                 /\ rms < Db(-28) => it.status = "error"

\* speech at a comfortable -18 dBFS RMS whose peak passes -1 dBFS with fewer
\* than 0.5% of the samples clipped: graded error/clipping all the same
C8_Witness ==
    /\ Done
    /\ inp.speech_sig.size > 0
    /\ inp.speech_sig.rms = Db(-18)
    /\ inp.speech_sig.peak > Db(-1)
    /\ inp.speech_sig.clip < 500
    /\ Grade(audio_checklist.mic_loudness) = <<"error", "clipping">>

\* C9: with SNR = speech RMS - noise RMS (dB) the mic_noise item is good iff
\* SNR >= 20, warning iff 12 <= SNR < 20, error iff SNR < 12, and reports
\* that SNR; when the speech signal or the noise signal is empty the SNR
\* value and the status are null.
C9_MicNoise ==
    Done =>
      LET sp == inp.speech_sig
          no == inp.noise_sig
          it == audio_checklist.mic_noise
      IN  IF sp.size > 0 /\ no.size > 0
          THEN LET snr == sp.rms - no.rms
               IN  /\ (it.status = "good")    <=> (snr >= Db(20))
                   /\ (it.status = "warning") <=> (Db(12) <= snr /\ snr < Db(20))
                   /\ (it.status = "error")   <=> (snr < Db(12))
                   /\ ~IsNone(it.snr_db)
                   /\ 10 * Val(it.snr_db) - snr \in -5..5
          ELSE /\ it.snr_db = None
               /\ it.status = NoneStr

\* speech at -18 dBFS over noise at -37.99 dBFS: an SNR of 19.99 dB, shown
\* as 20.0 and graded warning
C9_Witness ==
    /\ Done
    /\ inp.speech_sig.size > 0 /\ inp.noise_sig.size > 0
    /\ inp.speech_sig.rms - inp.noise_sig.rms = Db(20) - 1
    /\ audio_checklist.mic_noise.status = "warning"
    /\ audio_checklist.mic_noise.snr_db = Some(200)

-----------------------------------------------------------------------------
(* Properties of the whole checklist *)

ChecklistKeys ==
    { "pace", "pauses", "fillers", "hedges", "coverage", "time_use",
      "spoken_ratio", "mic_loudness", "mic_noise" }

\* C10: for every combination of present and absent inputs of one run, the
\* checklist has exactly the nine keys, each item with a status field; a
\* missing input gives a null or not-applicable item (no script: coverage
\* with a null status; no planned duration or no speech window: time_use
\* "na"; no speech samples: both mic items null; no noise samples: mic_noise
\* null), never an omitted key.
C10_AllKeys ==
    Done =>
      /\ DOMAIN audio_checklist = ChecklistKeys
      /\ \A k \in ChecklistKeys : "status" \in DOMAIN audio_checklist[k]
      /\ CovAbsent(inp.coverage) => audio_checklist.coverage.status = NoneStr
      /\ (IsNone(inp.planned_duration_sec) \/ inp.speech_window_sec = 0)
            => audio_checklist.time_use.status = "na"
      /\ inp.speech_sig.size = 0 =>
            /\ audio_checklist.mic_loudness.status = NoneStr
            /\ audio_checklist.mic_noise.status = NoneStr
      /\ inp.noise_sig.size = 0 => audio_checklist.mic_noise.status = NoneStr

\* a run with no words, no speech segments, no script and no planned
\* duration still ends with all nine items
C10_Witness ==
    /\ Done
    /\ inp.words_total = 0
    /\ inp.duration_spoken = 0
    /\ inp.speech_sig.size = 0
    /\ IsNone(inp.coverage)
    /\ IsNone(inp.planned_duration_sec)
    /\ DOMAIN audio_checklist = ChecklistKeys
    /\ audio_checklist.coverage.status = NoneStr
    /\ audio_checklist.time_use.status = "na"

-----------------------------------------------------------------------------
(* The status values of the checklist *)

Graded == {"good", "warning", "error"}

\* C11 (as stated): the status of every item of every checklist is one of
\* good, warning, error, not_applicable.
C11_FourStatuses ==
    Done =>
      \A k \in ChecklistKeys :
        audio_checklist[k].status \in Graded \cup {"not_applicable"}

\* C11 (amended): the status of every item is good, warning or error, except
\* that time_use may carry the string "na" and coverage, mic_loudness and
\* mic_noise may carry a null status; pace, pauses, fillers, hedges and
\* spoken_ratio are always good, warning or error, and no item ever carries
\* the string not_applicable.
C11_StatusDomain ==
    Done =>
      /\ \A k \in {"pace", "pauses", "fillers", "hedges", "spoken_ratio"} :
            audio_checklist[k].status \in Graded
      /\ audio_checklist.time_use.status \in Graded \cup {"na"}
      /\ \A k \in {"coverage", "mic_loudness", "mic_noise"} :
            audio_checklist[k].status \in Graded \cup {NoneStr}
      /\ \A k \in ChecklistKeys : audio_checklist[k].status # "not_applicable"

\* a checklist that carries a graded status, the string "na" and a null
\* status at once
C11_Witness ==
    /\ Done
    /\ audio_checklist.pace.status \in Graded
    /\ audio_checklist.time_use.status = "na"
    /\ audio_checklist.coverage.status = NoneStr
    /\ audio_checklist.mic_loudness.status \in Graded

-----------------------------------------------------------------------------
(* Properties of the pause detector *)

\* the consecutive pairs (i, i + 1) whose gap is at least the threshold
LongGaps(segs, thr) ==
    {i \in 1..(Len(segs) - 1) : segs[i + 1][1] - segs[i][2] >= thr}

\* the k-th smallest element of a set of numbers
Kth(S, k) == CHOOSE i \in S : Cardinality({j \in S : j < i}) = k - 1

NonOverlapping(segs) ==
    \A i \in 1..(Len(segs) - 1) : segs[i][2] <= segs[i + 1][1]

\* C13: for sorted, non-overlapping segments with non-negative starts and a
\* reported total >= 0, spoken_time is the sum of the segment durations and
\* overall_time is the larger of the reported total and the end of the last
\* segment (the reported total when there is no segment); the report, which
\* rounds both to 2 decimals, has duration_sec_total >= duration_sec_spoken
\* >= 0, also when the reported total is smaller than the observed speech.
C13_Durations ==
    (Returned /\ NonOverlapping(loc.speech_segs)) =>
      LET segs == loc.speech_segs
          n    == Len(segs)
          last == IF n = 0 THEN 0 ELSE segs[n][2]
      IN  /\ loc.spoken_time = SeqSum([i \in 1..n |-> segs[i][2] - segs[i][1]])
          /\ loc.overall_time = Max2(loc.total_dur, last)
          /\ n = 0 => loc.overall_time = loc.total_dur
          /\ report.duration_sec_total = RoundDiv(loc.overall_time, 40)
          /\ report.duration_sec_spoken = RoundDiv(loc.spoken_time, 40)
          /\ report.duration_sec_total >= report.duration_sec_spoken
          /\ report.duration_sec_spoken >= 0

\* the transcription ends at 3 s while two detected segments reach 6 s and
\* hold more than 3 s of speech
C13_Witness ==
    /\ Returned
    /\ NonOverlapping(loc.speech_segs)
    /\ Len(loc.speech_segs) = 2
    /\ loc.total_dur = Sec(3)
    /\ loc.spoken_time > Sec(3)
    /\ loc.overall_time = Sec(6)
    /\ report.duration_sec_total = 600
    /\ report.duration_sec_spoken > 300

-----------------------------------------------------------------------------
(* Properties of the rates *)

Abs(x) == IF x >= 0 THEN x ELSE -x

\* rate (hundredths of a word per minute) is words / t * 60 rounded to one
\* decimal when t > 0, and exactly 0 when t = 0
IsRate(rate, words, t) ==
    IF t = 0 THEN rate = 0
    ELSE /\ rate >= 0
         /\ rate % 10 = 0
         /\ 2 * Abs((rate \div 10) * t - 2400000 * words) <= t

\* what C14 states of every run, and of a run with no detected segment
\* apart from its recording-quality fields
RatesAsStated ==
    /\ IsRate(report.wpm_spoken, loc.n_words, loc.spoken_time)
    /\ IsRate(report.wpm_overall, loc.n_words, loc.overall_time)
    /\ loc.speech_segs = <<>> =>
         /\ loc.spoken_time = 0
         /\ report.long_pauses = <<>>
         /\ report.wpm_spoken = 0
         /\ IsRate(report.wpm_overall, loc.n_words, loc.total_dur)

-----------------------------------------------------------------------------
(* Properties of the pattern search *)

\* every occurrence found by analyze, with the pattern it belongs to
Occurrences ==
    LET all == loc.fillers \o loc.hedges
    IN  UNION {{[pattern |-> all[j].pattern, k |-> k,
                 occ |-> all[j].occurrences[k]] :
                  k \in DOMAIN all[j].occurrences} : j \in DOMAIN all}

\* C15: find_patterns_with_timestamps never raises: an empty word list gives
\* zero occurrences and total 0, and for every non-empty word list, words
\* that normalize to an empty token included, every word index used for the
\* start and the end of a match is within 0..len(words)-1.
C15_IndicesInRange ==
    /\ ~Raised
    /\ Returned =>
         /\ loc.words = <<>> =>
              /\ loc.fillers = <<>> /\ loc.fillers_total = 0
              /\ loc.hedges = <<>> /\ loc.hedges_total = 0
         /\ \A o \in Occurrences :
              /\ o.occ.start_idx \in 0..(Len(loc.words) - 1)
              /\ o.occ.end_idx \in 0..(Len(loc.words) - 1)

\* three words, the second an empty token, the third matched: its end index
\* is held at the last word
C15_Witness ==
    /\ Returned
    /\ Len(loc.words) = 3
    /\ Normalize(loc.words[2].word) = <<>>
    /\ \E o \in Occurrences : o.occ.start_idx = 2 /\ o.occ.end_idx = 2

\* the index (from 0) of the word whose token holds offset c of the joined
\* text
WordHolding(words, c) ==
    LET tokens    == [i \in DOMAIN words |-> Normalize(words[i].word)]
        positions == Positions(tokens, 0, 0)
    IN  (CHOOSE p \in {positions[q] : q \in DOMAIN positions} :
            p.acc_pos <= c /\ c < p.acc_pos + Len(tokens[p.idx + 1])).idx

\* C16: for every regex match the occurrence starts at the start time of the
\* word that holds the first character of the match and ends at the end
\* time of the word that holds its last character (times rounded to the
\* millisecond); words after the matched phrase do not extend the interval.
C16_MatchInterval ==
    Returned =>
      \A o \in Occurrences :
        LET tokens == [i \in DOMAIN loc.words |-> Normalize(loc.words[i].word)]
            joined == JoinSp(NonEmpty(tokens))
            m      == FindIter(o.pattern, joined, 0)[o.k]
            first  == WordHolding(loc.words, m.start)
            last   == WordHolding(loc.words, m.end - 1)
        IN  /\ o.occ.start = Round3(loc.words[first + 1].start)
            /\ o.occ.end = Round3(loc.words[last + 1].end)

-----------------------------------------------------------------------------
(* Properties of the script coverage *)

\* the run returned a coverage result for a script with units
Covered == Returned /\ ~IsNone(loc.coverage) /\ ~IsNone(Val(loc.coverage).coverage)

UnitIdx(entries) == {entries[k].unit_idx : k \in DOMAIN entries}

\* C17: whenever the script and the segment texts are both non-empty,
\* compute_coverage places every script unit in exactly one of matches and
\* missing: the unit indices of the two lists are disjoint, together they
\* are 0..n-1, and |matches| + |missing| is the number n of units.
C17_Partition ==
    (Returned /\ inp.script_text # <<>> /\ loc.seg_texts # <<>>) =>
      LET n       == Len(split_script_units(inp.script_text))
          matches == Val(loc.coverage).matches
          missing == Val(loc.coverage).missing
      IN  /\ UnitIdx(matches) \cap UnitIdx(missing) = {}
          /\ UnitIdx(matches) \cup UnitIdx(missing) = 0..(n - 1)
          /\ Len(matches) + Len(missing) = n

\* two units against two segment texts, one matched and one missing
C17_Witness ==
    /\ Covered
    /\ Len(loc.seg_texts) = 2
    /\ Len(split_script_units(inp.script_text)) = 2
    /\ Len(Val(loc.coverage).matches) = 1
    /\ Len(Val(loc.coverage).missing) = 1

\* the largest entry of a row of similarities
Best(row) == SetMax({row[j] : j \in DOMAIN row})

\* C18: a unit is matched iff its best similarity over the segment texts is
\* at least its own threshold, 0.45 for a unit of at most 4 tokens and the
\* base threshold 0.65 for a longer one; coverage% is 100 * matched / total
\* rounded to one decimal; 10 units with 9 matched and 1 missed at 0.40 give
\* coverage 90.0 and the checklist status good.
C18_Thresholds ==
    Covered =>
      LET units   == split_script_units(inp.script_text)
          n       == Len(units)
          matches == Val(loc.coverage).matches
          missing == Val(loc.coverage).missing
          cov     == Val(Val(loc.coverage).coverage)
          thr(i)  == IF word_count(units[i]) <= 4 THEN 4500 ELSE 6500
      IN  /\ \A i \in 1..n :
               (i - 1 \in UnitIdx(matches))
                 <=> (Best(inp.embedding.sims[i]) >= thr(i))
          /\ 2 * Abs(cov * n - 1000 * Len(matches)) <= n
          /\ (n = 10 /\ Len(matches) = 9 /\ missing[1].max_similarity = 400)
               => (cov = Pct(90) /\ audio_checklist.coverage.status = "good")

\* ten long units, nine heard at 0.70 and one at 0.40
C18_Witness ==
    /\ Covered
    /\ Len(split_script_units(inp.script_text)) = 10
    /\ word_count(split_script_units(inp.script_text)[1]) = 5
    /\ Len(Val(loc.coverage).matches) = 9
    /\ Val(loc.coverage).missing[1].max_similarity = 400
    /\ Val(loc.coverage).coverage = Some(Pct(90))
    /\ audio_checklist.coverage.status = "good"

\* the three cases in which there is a script request but nothing to compare
EmptyScript  == inp.script_text = <<>>
NoSegText    == loc.seg_texts = <<>>
ZeroUnits    == /\ inp.script_text # <<>>
                /\ split_script_units(inp.script_text) = <<>>

\* in the three cases the run returns without a use of the encoder, and its
\* coverage item has a null status and a null value
DegenerateCoverage ==
    (EmptyScript \/ NoSegText \/ ZeroUnits) =>
      /\ calls.embed = 0
      /\ audio_checklist.coverage.status = NoneStr
      /\ IsNone(audio_checklist.coverage.value)

\* C19 (as stated): with an empty script, with no grouped segment text, and
\* with a non-empty script that splits into zero units, coverage is
\* not-applicable, never zero and never fatal, and the encoder is not
\* invoked; the zero-units case yields the same coverage result (null) and
\* the same coverage checklist item as supplying no script at all.
C19_ZeroUnitsAsNoScript ==
    /\ ~Raised
    /\ Returned =>
         /\ DegenerateCoverage
         /\ (ZeroUnits /\ ~NoSegText) =>
              /\ IsNone(report.script_alignment)
              /\ audio_checklist.coverage = CoverageItem(None)

\* C19 (amended): in the three cases coverage is not-applicable (null status
\* and value), never zero and never fatal, and the encoder is not invoked;
\* an empty script or no segment text gives a null coverage result, while
\* the zero-units case gives a result with a null coverage and empty matches
\* and missing lists, and a coverage item that differs from the no-script
\* item in missing_examples, an empty list instead of null.
C19_DegenerateCoverage ==
    /\ ~Raised
    /\ Returned =>
         /\ DegenerateCoverage
         /\ (EmptyScript \/ NoSegText) =>
              /\ IsNone(report.script_alignment)
              /\ audio_checklist.coverage = CoverageItem(None)
         /\ (ZeroUnits /\ ~NoSegText) =>
              /\ report.script_alignment
                   = Some([coverage |-> None, missing |-> <<>>, matches |-> <<>>])
              /\ audio_checklist.coverage
                   = [CoverageItem(None) EXCEPT !.missing_examples = Some(<<>>)]

\* a script whose only sentence has two words, against a transcription with
\* text: no unit, no use of the encoder, a returned report
C19_Witness ==
    /\ Returned
    /\ ZeroUnits
    /\ loc.seg_texts # <<>>
    /\ calls.embed = 0
    /\ audio_checklist.coverage.status = NoneStr
    /\ audio_checklist.coverage.missing_examples = Some(<<>>)

-----------------------------------------------------------------------------
(* Failures of the external models *)

\* the stages analyze has left behind
Past(stages) == pc \notin stages

-----------------------------------------------------------------------------
(* Properties of the order of the stages and of the external calls *)

Stages ==
    << "transcribe", "vad", "segments", "pauses", "patterns", "coverage",
       "mic_quality", "build_checklist", "return", "returned" >>

Rank(stage) == CHOOSE k \in DOMAIN Stages : Stages[k] = stage

\* one step of a run: the next stage in the order or the exception, and every
\* external model used in its own stage only
StageStep ==
    /\ pc # "raised"
    /\ pc' = "raised" \/ Rank(pc') = Rank(pc) + 1
    /\ calls'.transcribe # calls.transcribe => pc = "transcribe"
    /\ calls'.vad_load # calls.vad_load => pc = "vad"
    /\ calls'.vad # calls.vad => pc = "segments"
    /\ (calls'.embed # calls.embed \/ calls'.encode # calls.encode) => pc = "coverage"
    /\ report' # report => pc = "return" /\ pc' = "returned"

OneReportOrException ==
    /\ Returned <=> report # <<>>
    /\ Raised => report = <<>>

\* C21 as stated: in every run the recogniser, the detector and the encoder
\* are each used at most once, the encoder only for a non-empty script, and
\* there is a report exactly in the returned state.
C21_EachCalledOnce ==
    /\ calls.transcribe <= 1
    /\ calls.vad <= 1
    /\ calls.encode <= 1
    /\ calls.encode > 0 => inp.script_text # <<>>
    /\ OneReportOrException

CallCounts ==
    /\ calls.transcribe <= 1
    /\ calls.vad <= 1
    /\ calls.vad_load <= 2
    /\ calls.vad_load = 2 => inp.loader[1] = "TypeError"
    /\ calls.embed <= 1
    /\ calls.encode <= 2
    /\ calls.encode = 2 => calls.embed = 1
    /\ calls.embed > 0 =>
         /\ inp.script_text # <<>>
         /\ split_script_units(inp.script_text) # <<>>
         /\ group_segment_texts(inp.asr.segments, Sec(12), 60) # <<>>

\* C21 (amended): every run goes through the stages transcription, VAD,
\* pauses and rates, patterns, coverage, recording quality, checklist, report
\* in this order or leaves them by an exception; the recogniser and the
\* detector are used at most once, the detector is loaded a second time only
\* after a TypeError of the first load, the encoder is loaded at most once and
\* used at most twice (the units, then the segment texts) and only for a
\* script with units and a transcription with segment texts; a run that has
\* ended is returned with one report or raised with none, and nothing follows.
C21_StagesInOrder ==
    /\ [](CallCounts /\ OneReportOrException)
    /\ [][StageStep]_vars

\* a returned run that used the recogniser and the detector once and the
\* encoder for both lists
C21_Witness ==
    /\ Returned
    /\ report # <<>>
    /\ calls.transcribe = 1
    /\ calls.vad = 1
    /\ calls.embed = 1
    /\ calls.encode = 2

-----------------------------------------------------------------------------
(* Properties of the presentation shape *)

GroupKeys ==
    << <<"pace", "fillers", "hedges">>,
       <<"pauses", "coverage", "spoken_ratio">>,
       <<"mic_loudness", "mic_noise", "time_use">> >>

StatusScore(status) ==
    IF status = "good" THEN Some(Q(ScoreGood, 1))
    ELSE IF status = "warning" THEN Some(Q(ScoreWarning, 1))
    ELSE IF status = "error" THEN Some(Q(ScoreError, 1))
    ELSE None

\* the mean of the status scores of the graded items of group g
StatusAverage(checklist, g) ==
    Average([i \in 1..3 |-> StatusScore(checklist[GroupKeys[g][i]].status)])

\* C22: after the conversion, the value of every group with a graded item is
\* the mean, rounded to 2 decimals, of the scores 1.0 / 0.75 / 0.40 of the
\* statuses good / warning / error of its graded items.
C22_GroupsFromStatuses ==
    Converted =>
      \A g \in 1..3 :
        LET avg == StatusAverage(audio_checklist, g)
        IN  ~IsNone(avg) => frontend_result.groups[g].value = RoundScore(Val(avg))

\* the number of the nine items whose status is in S
Count(S) ==
    Cardinality({i \in DOMAIN StatusKeys : audio_checklist[StatusKeys[i]].status \in S})

\* C23: after the conversion the feedback is the critical message iff more
\* than 2 items have status error, otherwise the moderate message iff more
\* than 3 items have status warning, otherwise the positive message; an item
\* with a null or "na" status counts toward neither number.
C23_FeedbackTone ==
    Converted =>
      LET errors   == Count({"error"})
          warnings == Count({"warning"})
      IN  /\ errors + warnings + Count({"good"}) + Count({NoneStr, "na"}) = 9
          /\ frontend_result.feedback = "critical" <=> errors > 2
          /\ frontend_result.feedback = "moderate" <=> errors <= 2 /\ warnings > 3
          /\ frontend_result.feedback = "positive" <=> errors <= 2 /\ warnings <= 3

\* both rules apply, and items without a grade are present: the error rule wins
C23_Witness ==
    /\ Converted
    /\ Count({"error"}) > 2
    /\ Count({"warning"}) > 3
    /\ Count({NoneStr, "na"}) > 0
    /\ frontend_result.feedback = "critical"

InSeq(x, seq) == \E i \in DOMAIN seq : seq[i] = x

\* C29: after the conversion each of the nine keys is among the strengths
\* iff its item's status is good and among the areas for improvement iff the
\* status is warning or error, and in neither list when the status is null
\* or "na"; no key is in both lists, no key is listed twice, and the two
\* lists together are as long as the number of graded items.
C29_StrengthsAndAreas ==
    Converted =>
      LET strengths == frontend_result.strengths
          areas     == frontend_result.areas_for_improvement
      IN  /\ \A i \in DOMAIN StatusKeys :
               LET key    == StatusKeys[i]
                   status == audio_checklist[key].status
               IN  /\ InSeq(key, strengths) <=> status = "good"
                   /\ InSeq(key, areas) <=> status \in {"warning", "error"}
                   /\ status \in {NoneStr, "na"} =>
                        ~InSeq(key, strengths) /\ ~InSeq(key, areas)
                   /\ ~(InSeq(key, strengths) /\ InSeq(key, areas))
          /\ Len(strengths) + Len(areas) = Count({"good", "warning", "error"})

\* strengths, areas for improvement and items in neither list, the items
\* without coverage, without a plan and without a measured level among them
C29_Witness ==
    /\ Converted
    /\ frontend_result.strengths # <<>>
    /\ frontend_result.areas_for_improvement # <<>>
    /\ audio_checklist.coverage.status = NoneStr
    /\ audio_checklist.time_use.status = "na"
    /\ audio_checklist.mic_noise.status = NoneStr
    /\ Len(frontend_result.strengths) + Len(frontend_result.areas_for_improvement) = 6

-----------------------------------------------------------------------------
(* Properties of the signals of the recording-quality stage *)

Measured == mic_quality # <<>>

\* the recording's length as a time
TotalSec == inp.audio.n \div SamplesPerUnit

\* no sample of the recording lies in a segment of segs
NoSamples(segs) ==
    \A i \in DOMAIN segs : ~(Max2(0, segs[i][1]) < segs[i][2] /\ segs[i][1] < TotalSec)

\* C24 as stated: with no speech samples speech_rms_dbfs, speech_peak_dbfs,
\* clipping_ratio and snr_db are all null, and with no noise samples
\* noise_rms_dbfs and snr_db are null.
C24_EmptySignalNull ==
    Measured =>
      /\ NoSamples(loc.speech_segs) =>
           /\ IsNone(mic_quality.mic_loudness.speech_rms_dbfs)
           /\ IsNone(mic_quality.mic_loudness.speech_peak_dbfs)
           /\ IsNone(mic_quality.mic_loudness.clipping_ratio)
           /\ IsNone(mic_quality.mic_noise.snr_db)
      /\ NoSamples(loc.nonspeech_segs) =>
           /\ IsNone(mic_quality.mic_noise.noise_rms_dbfs)
           /\ IsNone(mic_quality.mic_noise.snr_db)

\* C24 (amended): with no speech samples (no segment, or segments outside
\* the waveform) the speech level, the speech peak and the SNR are null, both
\* items are ungraded and clipping_ratio is the number 0.0; with no noise
\* samples the noise level and the SNR are null; a level is a number exactly
\* when its signal has samples.
C24_EmptySignal ==
    Measured =>
      LET loud  == mic_quality.mic_loudness
          noise == mic_quality.mic_noise
      IN  /\ NoSamples(loc.speech_segs) <=> IsNone(loud.speech_rms_dbfs)
          /\ NoSamples(loc.speech_segs) <=> IsNone(loud.speech_peak_dbfs)
          /\ NoSamples(loc.speech_segs) <=> IsNone(noise.speech_rms_dbfs)
          /\ NoSamples(loc.nonspeech_segs) <=> IsNone(noise.noise_rms_dbfs)
          /\ (NoSamples(loc.speech_segs) \/ NoSamples(loc.nonspeech_segs))
               <=> IsNone(noise.snr_db)
          /\ NoSamples(loc.speech_segs) =>
               /\ loud.clipping_ratio = Some(0)
               /\ loud.status = NoneStr
               /\ noise.status = NoneStr

\* detected segments that all lie after the end of the recording
C24_Witness ==
    /\ Measured
    /\ loc.speech_segs # <<>>
    /\ TotalSec > 0
    /\ NoSamples(loc.speech_segs)
    /\ IsNone(mic_quality.mic_loudness.speech_rms_dbfs)
    /\ mic_quality.mic_loudness.clipping_ratio = Some(0)
    /\ ~IsNone(mic_quality.mic_noise.noise_rms_dbfs)

\* the instants an uncovered interval of the recording can start or end at
GapPoints(segs) ==
    {t \in {0, TotalSec} \cup {segs[i][1] : i \in DOMAIN segs}
                         \cup {segs[i][2] : i \in DOMAIN segs} :
        0 <= t /\ t <= TotalSec}

\* no instant strictly between a and b lies in a segment
Uncovered(segs, a, b) ==
    \A i \in DOMAIN segs : ~(segs[i][1] < b /\ a < segs[i][2])

\* the maximal uncovered intervals of [0, TotalSec] that last 0.15 s or more
NoiseGaps(segs) ==
    {g \in GapPoints(segs) \X GapPoints(segs) :
        /\ g[1] < g[2]
        /\ Uncovered(segs, g[1], g[2])
        /\ \A t \in GapPoints(segs) :
             /\ t < g[1] => ~Uncovered(segs, t, g[2])
             /\ t > g[2] => ~Uncovered(segs, g[1], t)
        /\ g[2] - g[1] >= MinNoiseGap}

\* C26: the noise intervals of a measured recording are exactly the maximal
\* intervals of [0, total duration] that no speech segment covers and that
\* last 0.15 s or more, each once and in chronological order; none overlaps
\* a speech segment or leaves the recording, so no sample is taken for both
\* the speech signal and the noise signal.
C26_NoiseIntervals ==
    Measured =>
      LET segs == loc.speech_segs
          inv  == loc.nonspeech_segs
      IN  /\ {inv[k] : k \in DOMAIN inv} = NoiseGaps(segs)
          /\ \A k \in 1..(Len(inv) - 1) : inv[k][2] <= inv[k + 1][1]
          /\ \A k \in DOMAIN inv :
               /\ 0 <= inv[k][1] /\ inv[k][2] <= TotalSec
               /\ inv[k][2] - inv[k][1] >= MinNoiseGap
               /\ \A i \in DOMAIN segs :
                    LET lo == Max2(SamplesPerUnit * inv[k][1], SamplesPerUnit * segs[i][1])
                        hi == IF inv[k][2] <= segs[i][2] THEN SamplesPerUnit * inv[k][2]
                              ELSE SamplesPerUnit * segs[i][2]
                    IN  hi <= lo
          /\ loc.noise_sig.size = IF inv = <<>> THEN 0
                                  ELSE SeqSum([k \in DOMAIN inv |->
                                         SamplesPerUnit * (inv[k][2] - inv[k][1])])

\* overlapping segments, the gaps of exactly 0.15 s before and between them
\* and the gap up to the end of the recording
C26_Witness ==
    /\ Measured
    /\ loc.speech_segs = << <<MinNoiseGap, Sec(1)>>, <<MinNoiseGap, Sec(1)>>,
                            <<Sec(1) + MinNoiseGap, Sec(2)>> >>
    /\ TotalSec = Sec(3)
    /\ loc.nonspeech_segs = << <<0, MinNoiseGap>>, <<Sec(1), Sec(1) + MinNoiseGap>>,
                               <<Sec(2), Sec(3)>> >>

-----------------------------------------------------------------------------
(* Properties of the loudness grades *)

\* C27: the loudness item is graded error/very_quiet only when the speech
\* RMS is below -28 dBFS; a recording without clipping whose RMS is above
\* -14 and at most -12 dBFS is never graded very quiet.
C27_VeryQuietOnlyBelow28 ==
    Done =>
      (Grade(audio_checklist.mic_loudness) = <<"error", "very_quiet">>
         => inp.speech_sig.size > 0 /\ inp.speech_sig.rms < Db(-28))

\* the time from the start of the first segment of a window to the end of
\* its last one
WindowSpan(w) == inp.segments[w[Len(w)]].end - inp.segments[w[1]].start

\* the joined text of the segments of a window
WindowText(w) == JoinSp([k \in DOMAIN w |-> Strip(inp.segments[w[k]].text)])

\* the window keeps both budgets
Fits(w) ==
    /\ WindowSpan(w) <= inp.max_seconds
    /\ word_count(WindowText(w)) <= inp.max_words

\* C25 as stated: every group emitted by group_segment_texts spans at most
\* max_seconds and its joined text has at most max_words words.
C25_EveryGroupInBudget ==
    Grouped =>
      \A k \in DOMAIN loc.windows :
        /\ WindowSpan(loc.windows[k]) <= inp.max_seconds
        /\ word_count(loc.seg_texts[k]) <= inp.max_words

\* C25: the groups of group_segment_texts are the joined texts of windows of
\* consecutive segments; a segment is appended to the open window exactly
\* when the window still keeps both budgets with it, otherwise the window is
\* closed and a new one starts with that segment; so a group of two or more
\* segments keeps both budgets, and a group that exceeds one is a single
\* segment that exceeds it alone.
C25_GreedyWindows ==
    Grouped =>
      /\ Len(loc.seg_texts) = Len(loc.windows)
      /\ \A k \in DOMAIN loc.windows :
           LET w == loc.windows[k]
           IN  /\ w # <<>>
               /\ loc.seg_texts[k] = WindowText(w)
               /\ \A j \in 2..Len(w) :
                    /\ w[j] = w[j - 1] + 1
                    /\ Fits(SubSeq(w, 1, j))
               /\ k > 1 => /\ w[1] = loc.windows[k - 1][Len(loc.windows[k - 1])] + 1
                           /\ ~Fits(Append(loc.windows[k - 1], w[1]))
               /\ (WindowSpan(w) > inp.max_seconds
                     \/ word_count(loc.seg_texts[k]) > inp.max_words)
                    => Len(w) = 1

\* two segments share a window, the third one is refused by it and exceeds
\* the word budget alone
C25_Witness ==
    /\ Grouped
    /\ Len(inp.segments) = 3
    /\ loc.windows = << <<1, 2>>, <<3>> >>
    /\ Fits(<<1, 2>>)
    /\ WindowSpan(<<3>>) <= inp.max_seconds
    /\ word_count(loc.seg_texts[2]) > inp.max_words

\* C28: group_segment_texts neither loses, duplicates nor reorders input: the
\* windows behind the emitted groups, put one after the other, are the
\* segments 1..n once each and in order, every group is the joined text
\* (stripped of surrounding blanks) of the segments of its window, a segment
\* that exceeds a budget alone and the window still open at the end of the
\* input included; an empty input gives an empty output.
C28_NothingLost ==
    Grouped =>
      LET n        == Len(inp.segments)
          stripped == [i \in 1..n |-> Strip(inp.segments[i].text)]
      IN  /\ Concat(loc.windows) = [i \in 1..n |-> i]
          /\ Len(loc.seg_texts) = Len(loc.windows)
          /\ \A k \in DOMAIN loc.seg_texts :
               loc.seg_texts[k] = JoinSp([j \in DOMAIN loc.windows[k] |->
                                            stripped[loc.windows[k][j]]])
          /\ JoinSp(loc.seg_texts) = JoinSp(stripped)
          /\ n = 0 => loc.seg_texts = <<>>

\* a first segment that exceeds the word budget alone, then two segments
\* that are in the window still open when the input ends
C28_Witness ==
    /\ Grouped
    /\ Len(inp.segments) = 3
    /\ word_count(WindowText(<<1>>)) > inp.max_words
    /\ loc.windows = << <<1>>, <<2, 3>> >>
    /\ loc.seg_texts = << <<"a", " ", "b", " ", "a">>, <<"a", " ", "a">> >>

\* C30: in a run of analyze with the default pause threshold of 4 s every
\* detected long pause is reported with 4 s or more, and the pauses item is
\* good exactly when no long pause was detected; with a pause it is warning
\* exactly when every pause is reported with 4.0 s and there are at most 1.5
\* pauses per minute, and error otherwise.
C30_GoodIffNoLongPause ==
    (Returned /\ inp.pause_threshold = LONG_PAUSE_SEC) =>
      LET ps     == report.long_pauses
          item   == report.audio_checklist.pauses
          total  == DurationTotal(loc)
          \* count / (total / 60) <= 1.5
          seldom == 2 * 60 * Len(ps) * Sec(1) <= 3 * total
      IN  /\ \A k \in DOMAIN ps : ps[k].dur >= Sec(4)
          /\ item.count = Len(ps)
          /\ item.status = "good" <=> ps = <<>>
          /\ ps # <<>> =>
               /\ item.status \in {"warning", "error"}
               /\ item.status = "warning" <=>
                    (seldom /\ \A k \in DOMAIN ps : ps[k].dur = Sec(4))

\* one pause of 4.00025 s, reported with 4.0 s, in a recording of two
\* minutes: 0.5 pauses per minute, and the item is warning
C30_Witness ==
    /\ Returned
    /\ inp.pause_threshold = LONG_PAUSE_SEC
    /\ loc.speech_segs = << <<0, Sec(2)>>, <<Sec(6) + 1, Sec(7)>> >>
    /\ DurationTotal(loc) = Sec(120)
    /\ Len(report.long_pauses) = 1
    /\ report.long_pauses[1].dur = Sec(4)
    /\ report.audio_checklist.pauses.status = "warning"
    /\ report.audio_checklist.pauses.per_min = 50

====
